---- MODULE Spec2Model ----
(***************************************************************************)
(* The plugin sandboxing subsystem of cloudflare-ddns: the host driver     *)
(* (src/config/ip_source/wasm/driver.rs) and the runtime process           *)
(* (modules/ddns-wasm-runtime/src/main.rs), joined by one IPC connection.  *)
(***************************************************************************)
EXTENDS Integers, Sequences, FiniteSets, TLC

\* ---------------------------------------------------------------- bounds
\* number of run calls the model issues (each caller calls run at most once)
NumCallers == 2
\* the u64 id counter, scaled down; the model issues fewer requests than this
IdModulus == 4

Callers == 1..NumCallers

\* module identifiers are paths, a sequence of characters
ModA == <<"/", "a">>
ModB == <<"/", "b">>
ModRel == <<"r">>
ModulePaths == {ModA, ModB, ModRel}

\* capacity of the host's work queue
QueueCapacity == 256

NoId == 0 - 1
Closed == <<"closed">>
Open == <<"open">>
NoChan == <<"none">>
Sent(response) == <<"sent", response>>
NoResult == <<>>
NoEntry == [id |-> NoId, module |-> <<>>, data |-> <<>>]
NoResponse == [id |-> NoId, response |-> <<>>]

VARIABLES
    \* ---- host driver
    callState,      \* position of each run call: idle, waiting, returned, dropped
    callResult,     \* what run returned to its caller
    chan,           \* the oneshot channel of each run call, seen from the sender
    queue,          \* the mpsc work queue of RunArguments
    senderAlive,    \* WasmDriverInner.sender not yet dropped
    current_id,     \* EntryManager.current_id
    requests_map,   \* RequestsMap: id -> oneshot sender (named by its caller)
    wpc,            \* position of the write task
    entry_guard,    \* the Entry the write task holds while it writes
    timers,         \* ids of the Entry guards held by pending timeout tasks
    drainElapsed,   \* the drain select ended by its sleep(REQUEST_TIMEOUT) arm
    rpc,            \* position of the read task
    closePc,        \* position of close
    \* ---- connection and child process
    h2r,            \* Commands written by the host, not yet read by the runtime
    r2h,            \* Responses written by the runtime, not yet read by the host
    child,          \* the runtime process: running, exited, killed
    stdinClosed,    \* the child's stdin pipe has been closed by the host
    \* ---- runtime process
    dpc,            \* position of the dispatch loop
    tasks,          \* the request tasks spawned by the dispatch loop, by id
    cache,          \* ModuleCache: module -> state of its OnceCell
    storeLock,      \* SharedCtx.store mutex of each module: id of the holder
    outq,           \* the internal outgoing channel of Responses
    wlpc,           \* position of the writer loop
    decodedIds,     \* ids of the Requests the dispatch loop has decoded
    emitted,        \* number of Responses the writer loop has written, per id
    \* ---- history
    reqId,          \* the id the write task assigned to each caller's request
    delivered,      \* the Response the read task completed each handle with
    discarded,      \* ids of the Responses the read task discarded
    initCount,      \* initializations started, per module
    initFailed,     \* initializations that failed, per module
    shutdownSent,   \* the host wrote the Shutdown Command
    sawInitFail,    \* ids of the tasks that were awaiting an initialization when it failed
    closeInFlight,  \* callers whose request was in flight when close began
    \* ---- open: the handshake on the child's stdout
    stdout_stream,  \* the bytes the child writes on its stdout
    stdout_end,     \* after them the child closes its stdout, or leaves it open
    openPc,         \* position of open
    openResult,     \* what open returned
    \* ---- one module's executor (WasmDdnsStep) and its guest
    stdin_pipe,     \* SharedCtx.stdin_pipe: the bytes the guest can still read
    stdout_pipe,    \* SharedCtx.stdout_pipe: the bytes written and not yet taken
    stepPc,         \* idle, or guest: a call holds the store lock and the guest runs
    stepData,       \* the data of the current (or last) call of run
    stepLen,        \* the length argument passed to the guest
    stepResult,     \* what the last call of run returned
    guestRead,      \* the bytes the guest has read during the current call
    guestWrote,     \* the bytes the guest has written during the current call
    calls,          \* number of calls of run so far
    allEcho,        \* every guest call so far copied its input to its output and returned 0
    stdinLeft,      \* the bytes the input pipe held when run was called
    \* ---- wire codec: one message from its writer to its reader
    codecMsg,       \* the Command or Response that is written
    codecPc,        \* start, written, closed (the stream has ended), read
    frame,          \* the bytes write_command produced
    wire,           \* the bytes of the frame that reach the reader before the stream ends
    decoded,        \* what read_response or get_request returned
    \* ---- request ids: the write loop over many requests
    idCurrent,      \* EntryManager.current_id
    idSerial,       \* the number of requests so far (kept modulo twice IdModulus)
    idGuards,       \* the Entry guards not yet dropped, oldest first
    idMap,          \* RequestsMap: id -> the request (its serial number) of the entry
    \* ---- idle reclamation of the module's executor
    gcPc,           \* position of the gc task: sleep, or locked (it holds the store lock)
    \* ---- the runtime's side of the handshake (ipc_channel in the runtime)
    endpoint,       \* name_bytes: the name of the endpoint the runtime listens on
    listener,       \* the listener: none, listening, dropped
    ipcPc,          \* position of the runtime's ipc_channel
    backlog,        \* connections made to the listener and not yet accepted
    accepted,       \* connections the runtime has accepted
    \* ---- the shared driver (WASM_DRIVER) and its users
    cell,           \* the OnceCell in the lock: 0 when empty, or the driver (its number)
    rwWriter,       \* the cleanup routine holds the write guard
    rwReaders,      \* the with_wasm_driver callers that hold a read guard
    clPc,           \* position of the cleanup routine: tick, wait, closing
    closing,        \* the driver the cleanup routine has taken and closes, or 0
    wdPc,           \* position of each with_wasm_driver caller: idle, read, run
    wdDriver,       \* the driver each caller's run call uses, or 0
    opened          \* the number of drivers opened so far

hostVars == <<callState, callResult, chan, queue, senderAlive, current_id,
              requests_map, wpc, entry_guard, timers, drainElapsed, rpc, closePc>>
connVars == <<h2r, r2h, child, stdinClosed>>
rtVars == <<dpc, tasks, cache, storeLock, outq, wlpc, decodedIds, emitted>>
histVars == <<reqId, delivered, discarded, initCount, initFailed, shutdownSent,
              sawInitFail, closeInFlight>>
openVars == <<stdout_stream, stdout_end, openPc, openResult>>
stepVars == <<stdin_pipe, stdout_pipe, stepPc, stepData, stepLen, stepResult,
              guestRead, guestWrote, calls, allEcho, stdinLeft>>
codecVars == <<codecMsg, codecPc, frame, wire, decoded>>
idVars == <<idCurrent, idSerial, idGuards, idMap>>
hsVars == <<endpoint, listener, ipcPc, backlog, accepted>>
lockVars == <<cell, rwWriter, rwReaders, clPc, closing, wdPc, wdDriver, opened>>
ioVars == <<openVars, stepVars, codecVars, idVars, gcPc, hsVars, lockVars>>
driverVars == <<hostVars, connVars, rtVars, histVars>>
vars == <<driverVars, ioVars>>
\* what open leaves alone, and what a module's executor leaves alone
notOpenVars == <<driverVars, stepVars, codecVars, idVars, gcPc, hsVars, lockVars>>
notStepVars == <<driverVars, openVars, codecVars, idVars, gcPc, hsVars, lockVars>>
notCodecVars == <<driverVars, openVars, stepVars, idVars, gcPc, hsVars, lockVars>>
notIdVars == <<driverVars, openVars, stepVars, codecVars, gcPc, hsVars, lockVars>>

\* ------------------------------------------------------------- helpers

\* Path::is_absolute (unix): the path has a root
IsAbsolute(p) == Len(p) > 0 /\ p[1] = "/"

\* a counter that does not advance
WrappingIncStuck(n) == n

\* u64::wrapping_add(1), in the id range of the model
WrappingInc(n) == (n + 1) % IdModulus

EmptyMap == <<>>

MapRemove(m, id) == [i \in (DOMAIN m) \ {id} |-> m[i]]

MapInsert(m, id, c) == [i \in (DOMAIN m) \cup {id} |-> IF i = id THEN c ELSE m[i]]

MapSenders(m) == {m[i] : i \in DOMAIN m}

\* dropping a oneshot sender without sending: an open channel becomes closed
DropSenders(ch, S) ==
    [c \in Callers |-> IF c \in S /\ ch[c] = Open THEN Closed ELSE ch[c]]

WriteEnded(w) == w \in {"done", "failed", "aborted"}
ReadEnded(r) == r \in {"done", "failed", "aborted"}

\* senders still travelling in the work queue
QueueSenders(q) == {q[i].tx : i \in 1..Len(q)}

\* The map is shared by the two tasks through an Arc (the Entry guards hold it
\* weakly): when both tasks are gone the map and every sender in it is dropped.
MapAfter(m, w, r) == IF WriteEnded(w) /\ ReadEnded(r) THEN EmptyMap ELSE m
ChanAfter(ch, m, w, r) ==
    IF WriteEnded(w) /\ ReadEnded(r) THEN DropSenders(ch, MapSenders(m)) ELSE ch

\* the bytes a caller passes to run: one distinct payload per caller
Payload(c) == <<ToString(c)>>

Ok(bytes) == <<"Ok", bytes>>
Err(msg) == <<"Err", msg>>

RequestCmd(id, module, data) == [kind |-> "Request", id |-> id, module |-> module, data |-> data]
ShutdownCmd == [kind |-> "Shutdown"]

\* a Response that carries the id following the one of its Request
ResponseShiftedId(id, response) == [id |-> (id + 1) % IdModulus, response |-> response]

Response(id, response) == [id |-> id, response |-> response]

\* ------------------------------------------------------------- Init

\* the driver as open returns it, and the runtime process behind it
DriverInit ==
    /\ callState = [c \in Callers |-> "idle"]
    /\ callResult = [c \in Callers |-> NoResult]
    /\ chan = [c \in Callers |-> NoChan]
    /\ queue = <<>>
    /\ senderAlive = TRUE
    /\ current_id = 0
    /\ requests_map = EmptyMap
    /\ wpc = "recv"
    /\ entry_guard = NoEntry
    /\ timers = {}
    /\ drainElapsed = FALSE
    /\ rpc = "run"
    /\ closePc = "none"
    /\ h2r = <<>>
    /\ r2h = <<>>
    /\ child = "running"
    /\ stdinClosed = FALSE
    /\ dpc = "read"
    /\ tasks = EmptyMap
    /\ cache = [m \in ModulePaths |-> "absent"]
    /\ storeLock = [m \in ModulePaths |-> NoId]
    /\ outq = <<>>
    /\ wlpc = "run"
    /\ decodedIds = {}
    /\ emitted = [i \in 0..(IdModulus - 1) |-> 0]
    /\ reqId = [c \in Callers |-> NoId]
    /\ delivered = [c \in Callers |-> NoResponse]
    /\ discarded = {}
    /\ initCount = [m \in ModulePaths |-> 0]
    /\ initFailed = [m \in ModulePaths |-> 0]
    /\ shutdownSent = FALSE
    /\ sawInitFail = {}
    /\ closeInFlight = {}

\* ------------------------------------------------------ open: the handshake

\* bytes of the child's stdout: decimal digits, a letter, NUL, and a byte
\* that occurs in no UTF-8 text
NUL == "NUL"
Digits == {"0", "1", "2"}
HandshakeBytes == Digits \cup {"a", NUL, "FF"}

BoundedSeq(S, n) == UNION {[1..k -> S] : k \in 0..n}

DigitValue(b) == CASE b = "0" -> 0 [] b = "1" -> 1 [] b = "2" -> 2

NoNumber == 0 - 1
Pending == <<"Pending", <<>>>>

\* read_until(b'\0', ..): the position of the first NUL, 0 when there is none
FirstNul(s) ==
    IF \E i \in 1..Len(s) : s[i] = NUL
    THEN CHOOSE i \in 1..Len(s) : s[i] = NUL /\ \A j \in 1..(i - 1) : s[j] # NUL
    ELSE 0

\* the number of digits the text starts with
DigitPrefixLen(t) ==
    CHOOSE k \in 0..Len(t) :
        /\ \A i \in 1..k : t[i] \in Digits
        /\ k = Len(t) \/ t[k + 1] \notin Digits

RECURSIVE Radix10(_)
Radix10(t) ==
    IF t = <<>> THEN 0
    ELSE Radix10(SubSeq(t, 1, Len(t) - 1)) * 10 + DigitValue(t[Len(t)])

\* a parser that reads one digit only
AtoiFirstDigit(t) ==
    IF DigitPrefixLen(t) = 0 THEN NoNumber ELSE DigitValue(t[1])

\* atoi::atoi::<u64>: the number written by the digits the text starts with,
\* whatever follows them; none when the text starts with no digit (an
\* overflow of u64 needs more digits than a stream of the model holds)
Atoi(t) ==
    LET k == DigitPrefixLen(t)
    IN  IF k = 0 THEN NoNumber ELSE Radix10(SubSeq(t, 1, k))

\* ipc_channel up to the connect: the endpoint name read from the child's
\* stdout, an error, or a read that does not return
IpcChannel(stream, end) ==
    LET nul == FirstNul(stream)
    IN  IF nul = 0
        THEN IF end = "eof" THEN Err(<<"could not read path size from child">>) ELSE Pending
        ELSE LET sz == Atoi(SubSeq(stream, 1, nul - 1))
                 rest == SubSeq(stream, nul + 1, Len(stream))
             IN  IF sz = NoNumber THEN Err(<<"invalid length provided by child">>)
                 ELSE IF Len(rest) < sz
                 THEN IF end = "eof" THEN Err(<<"child provided incorrect length">>) ELSE Pending
                 ELSE IF \E i \in 1..sz : rest[i] = "FF" THEN Err(<<"invalid utf-8">>)
                 ELSE Ok(SubSeq(rest, 1, sz))

\* open has returned the driver, after a handshake announcing the endpoint "a"
OpenedInit ==
    /\ stdout_stream = <<"1", NUL, "a">>
    /\ stdout_end = "open"
    /\ openPc = "opened"
    /\ openResult = Ok(<<"a">>)

\* a module's executor as WasmDdnsStep::new returns it: both pipes empty
StepInit ==
    /\ stdin_pipe = <<>>
    /\ stdout_pipe = <<>>
    /\ stepPc = "idle"
    /\ stepData = <<>>
    /\ stepLen = 0
    /\ stepResult = NoResult
    /\ guestRead = <<>>
    /\ guestWrote = <<>>
    /\ calls = 0
    /\ allEcho = TRUE
    /\ stdinLeft = <<>>

\* bytes are numbers below 256; a message is a Command (Shutdown, Request)
\* or a Response, whose result is Ok with bytes or Err with a text
NoMsg == [kind |-> "None", id |-> 0, module |-> <<>>, data |-> <<>>, ok |-> TRUE]
ShutdownMsg == [kind |-> "Shutdown", id |-> 0, module |-> <<>>, data |-> <<>>, ok |-> TRUE]
RequestMsg(id, module, data) ==
    [kind |-> "Request", id |-> id, module |-> module, data |-> data, ok |-> TRUE]
ResponseMsg(id, ok, body) ==
    [kind |-> "Response", id |-> id, module |-> <<>>, data |-> body, ok |-> ok]

\* no message is on its way
CodecIdle ==
    /\ codecMsg = NoMsg
    /\ codecPc = "idle"
    /\ frame = <<>>
    /\ wire = <<>>
    /\ decoded = [tag |-> "None", msg |-> NoMsg]

\* the write task has just started: no id taken, no entry, no guard
IdInit ==
    /\ idCurrent = 0
    /\ idSerial = 0
    /\ idGuards = <<>>
    /\ idMap = EmptyMap

\* the runtime's ipc_channel has returned: it listened on "a", published the
\* name, accepted the host's connection and dropped the listener
HandshakeDone ==
    /\ endpoint = <<"a">>
    /\ listener = "dropped"
    /\ ipcPc = "done"
    /\ backlog = 0
    /\ accepted = 1

\* WASM_DRIVER as const_new leaves it: an empty cell, nobody holds the lock
LockInit ==
    /\ cell = 0
    /\ rwWriter = FALSE
    /\ rwReaders = {}
    /\ clPc = "tick"
    /\ closing = 0
    /\ wdPc = [c \in Callers |-> "idle"]
    /\ wdDriver = [c \in Callers |-> 0]
    /\ opened = 0

\* the state of everything outside the driver and the runtime's tasks
SideInit == gcPc = "sleep" /\ HandshakeDone /\ LockInit

Init == DriverInit /\ OpenedInit /\ StepInit /\ CodecIdle /\ IdInit /\ SideInit

\* the runtime process is gone, and with it its tasks, its module cache and
\* whatever it had not yet read from the connection; what it had already
\* written stays readable by the host
ProcessGone ==
    /\ dpc' = "gone"
    /\ wlpc' = "gone"
    /\ tasks' = EmptyMap
    /\ cache' = [m \in ModulePaths |-> "absent"]
    /\ storeLock' = [m \in ModulePaths |-> NoId]
    /\ outq' = <<>>
    /\ decodedIds' = {}
    /\ emitted' = [i \in 0..(IdModulus - 1) |-> 0]
    /\ h2r' = <<>>

\* ------------------------------------------------------ host: run, close

NoRunInProgress == \A c \in Callers : callState[c] # "waiting"

\* a run call that is accepted although the sender has been dropped
RunIgnoresClose(c, m) ==
    /\ callState[c] = "idle"
    /\ \A d \in Callers : d < c => callState[d] # "idle"
    /\ ~WriteEnded(wpc)
    /\ Len(queue) < QueueCapacity
    /\ queue' = Append(queue, [tx |-> c, module |-> m, data |-> Payload(c)])
    /\ chan' = [chan EXCEPT ![c] = Open]
    /\ callState' = [callState EXCEPT ![c] = "waiting"]
    /\ UNCHANGED <<callResult, senderAlive, current_id, requests_map, wpc, entry_guard,
                   timers, drainElapsed, rpc, closePc>>
    /\ UNCHANGED <<connVars, rtVars, histVars>>
    /\ UNCHANGED ioVars

\* WasmDriver::_run up to rx.await: the unit of work is sent on the work
\* queue; the send fails when the write task (the receiver) is gone.
\* Callers are numbered in the order of their calls.
Run(c, m) ==
    /\ callState[c] = "idle"
    /\ \A d \in Callers : d < c => callState[d] # "idle"
    /\ senderAlive
    /\ IF WriteEnded(wpc)
       THEN /\ callState' = [callState EXCEPT ![c] = "returned"]
            /\ callResult' = [callResult EXCEPT ![c] = Err(<<"channel closed">>)]
            /\ UNCHANGED <<chan, queue>>
       ELSE /\ Len(queue) < QueueCapacity
            /\ queue' = Append(queue, [tx |-> c, module |-> m, data |-> Payload(c)])
            /\ chan' = [chan EXCEPT ![c] = Open]
            /\ callState' = [callState EXCEPT ![c] = "waiting"]
            /\ UNCHANGED callResult
    /\ UNCHANGED <<senderAlive, current_id, requests_map, wpc, entry_guard,
                   timers, drainElapsed, rpc, closePc>>
    /\ UNCHANGED <<connVars, rtVars, histVars>>
    /\ UNCHANGED ioVars

\* what rx.await and the two conversions after it give the caller
RunOutcome(ch) ==
    IF ch = Closed THEN Err(<<"request timeout">>)
    ELSE IF ch[2][1] = "Ok" THEN Ok(ch[2][2])
    ELSE Err(<<"failed to run wasm command", ch[2][2]>>)

\* WasmDriver::_run from rx.await on: the completion handle has resolved
RunReturn(c) ==
    /\ callState[c] = "waiting"
    /\ chan[c] \notin {NoChan, Open}
    /\ callState' = [callState EXCEPT ![c] = "returned"]
    /\ callResult' = [callResult EXCEPT ![c] = RunOutcome(chan[c])]
    /\ UNCHANGED <<chan, queue, senderAlive, current_id, requests_map, wpc,
                   entry_guard, timers, drainElapsed, rpc, closePc>>
    /\ UNCHANGED <<connVars, rtVars, histVars>>
    /\ UNCHANGED ioVars

\* the caller drops the future of run while it is suspended (the receiver of
\* the oneshot channel goes away; what was sent stays in flight)
CancelRun(c) ==
    /\ callState[c] = "waiting"
    /\ callState' = [callState EXCEPT ![c] = "dropped"]
    /\ UNCHANGED <<callResult, chan, queue, senderAlive, current_id, requests_map,
                   wpc, entry_guard, timers, drainElapsed, rpc, closePc>>
    /\ UNCHANGED <<connVars, rtVars, histVars>>
    /\ UNCHANGED ioVars

\* WasmDriver::close, first step: drop(sender). close takes the driver by
\* value while run borrows it, so no run call is in progress.
Close ==
    /\ senderAlive
    /\ closePc = "none"
    /\ NoRunInProgress
    /\ senderAlive' = FALSE
    /\ closePc' = "awaitWrite"
    /\ closeInFlight' = {c \in Callers : chan[c] = Open}
    /\ UNCHANGED <<callState, callResult, chan, queue, current_id, requests_map,
                   wpc, entry_guard, timers, drainElapsed, rpc>>
    /\ UNCHANGED <<connVars, rtVars, reqId, delivered, discarded, initCount, initFailed,
                   shutdownSent, sawInitFail>>
    /\ UNCHANGED ioVars

\* write_task.await??: an error of the write task is returned at once
CloseJoinWrite ==
    /\ closePc = "awaitWrite"
    /\ WriteEnded(wpc)
    /\ closePc' = IF wpc = "done" THEN "awaitRead" ELSE "done"
    /\ UNCHANGED <<callState, callResult, chan, queue, senderAlive, current_id,
                   requests_map, wpc, entry_guard, timers, drainElapsed, rpc>>
    /\ UNCHANGED <<connVars, rtVars, histVars>>
    /\ UNCHANGED ioVars

\* timeout(REQUEST_TIMEOUT, &mut read_task): the read task finished in time
CloseJoinRead ==
    /\ closePc = "awaitRead"
    /\ ReadEnded(rpc)
    /\ closePc' = "done"
    /\ UNCHANGED <<callState, callResult, chan, queue, senderAlive, current_id,
                   requests_map, wpc, entry_guard, timers, drainElapsed, rpc>>
    /\ UNCHANGED <<connVars, rtVars, histVars>>
    /\ UNCHANGED ioVars

\* a close that awaits the read task without a bound
CloseWaitsForRead ==
    /\ closePc = "awaitRead"
    /\ rpc = "run"
    /\ UNCHANGED vars

\* timeout(REQUEST_TIMEOUT, &mut read_task) elapsed: read_task.abort()
CloseAbortRead ==
    /\ closePc = "awaitRead"
    /\ rpc = "run"
    /\ rpc' = "aborted"
    /\ closePc' = "done"
    /\ requests_map' = MapAfter(requests_map, wpc, "aborted")
    /\ chan' = ChanAfter(chan, requests_map, wpc, "aborted")
    /\ UNCHANGED <<callState, callResult, queue, senderAlive, current_id, wpc,
                   entry_guard, timers, drainElapsed>>
    /\ UNCHANGED <<connVars, rtVars, histVars>>
    /\ UNCHANGED ioVars

\* ------------------------------------------------------ host: write task

\* what the write task's future drops when it ends in state w: the Entry it
\* holds, the receiver of the work queue with everything queued, its Arc of
\* the map, the send half and the Child (whose stdin pipe closes)
WriteTaskEnd(w) ==
    LET gid == IF entry_guard = NoEntry THEN {} ELSE {entry_guard.id} \cap DOMAIN requests_map
        m1 == [i \in (DOMAIN requests_map) \ gid |-> requests_map[i]]
        ch1 == DropSenders(chan, {requests_map[i] : i \in gid} \cup QueueSenders(queue))
    IN  /\ wpc' = w
        /\ entry_guard' = NoEntry
        /\ queue' = <<>>
        /\ requests_map' = MapAfter(m1, w, rpc)
        /\ chan' = ChanAfter(ch1, m1, w, rpc)
        /\ stdinClosed' = TRUE

\* a write loop that takes the next id without inserting the entry
WriteRecvNoInsert ==
    /\ wpc = "recv"
    /\ queue # <<>>
    /\ LET item == Head(queue)
           id == current_id
       IN  /\ current_id' = WrappingInc(current_id)
           /\ entry_guard' = [id |-> id, module |-> item.module, data |-> item.data]
           /\ reqId' = [reqId EXCEPT ![item.tx] = id]
    /\ queue' = Tail(queue)
    /\ wpc' = "write"
    /\ UNCHANGED <<callState, callResult, chan, requests_map, senderAlive, timers,
                   drainElapsed, rpc, closePc>>
    /\ UNCHANGED <<connVars, rtVars, delivered, discarded, initCount, initFailed,
                   shutdownSent, sawInitFail, closeInFlight>>
    /\ UNCHANGED ioVars

\* receiver.recv() yields a unit of work; EntryManager::insert
WriteRecv ==
    /\ wpc = "recv"
    /\ queue # <<>>
    /\ LET item == Head(queue)
           id == current_id
           old == IF id \in DOMAIN requests_map THEN {requests_map[id]} ELSE {}
       IN  /\ current_id' = WrappingInc(current_id)
           /\ requests_map' = MapInsert(requests_map, id, item.tx)
           /\ chan' = DropSenders(chan, old)
           /\ entry_guard' = [id |-> id, module |-> item.module, data |-> item.data]
           /\ reqId' = [reqId EXCEPT ![item.tx] = id]
    /\ queue' = Tail(queue)
    /\ wpc' = "write"
    /\ UNCHANGED <<callState, callResult, senderAlive, timers, drainElapsed, rpc, closePc>>
    /\ UNCHANGED <<connVars, rtVars, delivered, discarded, initCount, initFailed,
                   shutdownSent, sawInitFail, closeInFlight>>
    /\ UNCHANGED ioVars


\* the write loop without its timeout task: the Entry is forgotten, not dropped
WriteCommandOkNoTimeout ==
    /\ wpc = "write"
    /\ child = "running"
    /\ h2r' = Append(h2r, RequestCmd(entry_guard.id, entry_guard.module, entry_guard.data))
    /\ entry_guard' = NoEntry
    /\ wpc' = "recv"
    /\ UNCHANGED <<callState, callResult, chan, queue, senderAlive, current_id,
                   requests_map, timers, drainElapsed, rpc, closePc>>
    /\ UNCHANGED <<r2h, child, stdinClosed, rtVars, histVars>>
    /\ UNCHANGED ioVars

\* write_command(Request) succeeded; the timeout task takes the Entry
WriteCommandOk ==
    /\ wpc = "write"
    /\ child = "running"
    /\ h2r' = Append(h2r, RequestCmd(entry_guard.id, entry_guard.module, entry_guard.data))
    /\ timers' = timers \cup {entry_guard.id}
    /\ entry_guard' = NoEntry
    /\ wpc' = "recv"
    /\ UNCHANGED <<callState, callResult, chan, queue, senderAlive, current_id,
                   requests_map, drainElapsed, rpc, closePc>>
    /\ UNCHANGED <<r2h, child, stdinClosed, rtVars, histVars>>
    /\ UNCHANGED ioVars

\* a write task that ends on the error and leaves the entry it inserted
WriteCommandErrKeepsEntry ==
    /\ wpc = "write"
    /\ child # "running"
    /\ wpc' = "failed"
    /\ entry_guard' = NoEntry
    /\ queue' = <<>>
    /\ chan' = DropSenders(chan, QueueSenders(queue))
    /\ stdinClosed' = TRUE
    /\ UNCHANGED <<callState, callResult, senderAlive, current_id, requests_map, timers,
                   drainElapsed, rpc, closePc>>
    /\ UNCHANGED <<h2r, r2h, child, rtVars, histVars>>
    /\ UNCHANGED ioVars

\* write_command(Request) failed: `?` ends the write task
WriteCommandErr ==
    /\ wpc = "write"
    /\ child # "running"
    /\ WriteTaskEnd("failed")
    /\ UNCHANGED <<callState, callResult, senderAlive, current_id, timers,
                   drainElapsed, rpc, closePc>>
    /\ UNCHANGED <<h2r, r2h, child, rtVars, histVars>>
    /\ UNCHANGED ioVars

\* receiver.recv() yields None: every sender is dropped and the queue is empty
WriteRecvNone ==
    /\ wpc = "recv"
    /\ queue = <<>>
    /\ ~senderAlive
    /\ wpc' = "drain"
    /\ UNCHANGED <<callState, callResult, chan, queue, senderAlive, current_id,
                   requests_map, entry_guard, timers, drainElapsed, rpc, closePc>>
    /\ UNCHANGED <<connVars, rtVars, histVars>>
    /\ UNCHANGED ioVars


\* a write task that does not wait for the map to drain
DrainNoWait ==
    /\ wpc = "drain"
    /\ wpc' = "shutdown"
    /\ UNCHANGED <<callState, callResult, chan, queue, senderAlive, current_id,
                   requests_map, entry_guard, timers, drainElapsed, rpc, closePc>>
    /\ UNCHANGED <<connVars, rtVars, histVars>>
    /\ UNCHANGED ioVars

\* the drain select, first arm: requests_map.is_empty()
DrainEmpty ==
    /\ wpc = "drain"
    /\ DOMAIN requests_map = {}
    /\ wpc' = "shutdown"
    /\ UNCHANGED <<callState, callResult, chan, queue, senderAlive, current_id,
                   requests_map, entry_guard, timers, drainElapsed, rpc, closePc>>
    /\ UNCHANGED <<connVars, rtVars, histVars>>
    /\ UNCHANGED ioVars

\* the drain select, second arm: sleep(REQUEST_TIMEOUT) elapsed
DrainTimeout ==
    /\ wpc = "drain"
    /\ drainElapsed' = TRUE
    /\ wpc' = "shutdown"
    /\ UNCHANGED <<callState, callResult, chan, queue, senderAlive, current_id,
                   requests_map, entry_guard, timers, rpc, closePc>>
    /\ UNCHANGED <<connVars, rtVars, histVars>>
    /\ UNCHANGED ioVars

\* write_command(Shutdown), send.shutdown(), drop(send); then child.wait()
\* starts, which closes the child's stdin
WriteShutdownOk ==
    /\ wpc = "shutdown"
    /\ child = "running"
    /\ h2r' = Append(h2r, ShutdownCmd)
    /\ shutdownSent' = TRUE
    /\ stdinClosed' = TRUE
    /\ wpc' = "wait"
    /\ UNCHANGED <<callState, callResult, chan, queue, senderAlive, current_id,
                   requests_map, entry_guard, timers, drainElapsed, rpc, closePc>>
    /\ UNCHANGED <<r2h, child, rtVars, reqId, delivered, discarded, initCount, initFailed,
                   sawInitFail, closeInFlight>>
    /\ UNCHANGED ioVars

\* write_command(Shutdown) failed: `?` ends the write task
WriteShutdownErr ==
    /\ wpc = "shutdown"
    /\ child # "running"
    /\ WriteTaskEnd("failed")
    /\ UNCHANGED <<callState, callResult, senderAlive, current_id, timers,
                   drainElapsed, rpc, closePc>>
    /\ UNCHANGED <<h2r, r2h, child, rtVars, histVars>>
    /\ UNCHANGED ioVars

\* timeout(15s, child.wait()): the child exited in time
WaitChildExit ==
    /\ wpc = "wait"
    /\ child # "running"
    /\ WriteTaskEnd("done")
    /\ UNCHANGED <<callState, callResult, senderAlive, current_id, timers,
                   drainElapsed, rpc, closePc>>
    /\ UNCHANGED <<h2r, r2h, child, rtVars, histVars>>
    /\ UNCHANGED ioVars

\* a write task that gives up on a child that does not exit, without kill
WaitChildGiveUp ==
    /\ wpc = "wait"
    /\ child = "running"
    /\ WriteTaskEnd("done")
    /\ UNCHANGED <<callState, callResult, senderAlive, current_id, timers,
                   drainElapsed, rpc, closePc>>
    /\ UNCHANGED <<h2r, r2h, child, rtVars, histVars>>
    /\ UNCHANGED ioVars

\* timeout(15s, child.wait()) elapsed: child.kill()
WaitChildKill ==
    /\ wpc = "wait"
    /\ child = "running"
    /\ child' = "killed"
    /\ ProcessGone
    /\ WriteTaskEnd("done")
    /\ UNCHANGED <<callState, callResult, senderAlive, current_id, timers,
                   drainElapsed, rpc, closePc>>
    /\ UNCHANGED <<r2h, histVars>>
    /\ UNCHANGED ioVars


\* a timeout task whose Entry has no Drop: the entry stays in the map
TimeoutFireKeepsEntry(id) ==
    /\ id \in timers
    /\ timers' = timers \ {id}
    /\ UNCHANGED <<callState, callResult, chan, queue, senderAlive, current_id,
                   requests_map, wpc, entry_guard, drainElapsed, rpc, closePc>>
    /\ UNCHANGED <<connVars, rtVars, histVars>>
    /\ UNCHANGED ioVars

\* the timeout task: sleep(REQUEST_TIMEOUT), then drop(entry_guard)
TimeoutFire(id) ==
    /\ id \in timers
    /\ timers' = timers \ {id}
    /\ IF id \in DOMAIN requests_map
       THEN /\ requests_map' = MapRemove(requests_map, id)
            /\ chan' = DropSenders(chan, {requests_map[id]})
       ELSE UNCHANGED <<requests_map, chan>>
    /\ UNCHANGED <<callState, callResult, queue, senderAlive, current_id, wpc,
                   entry_guard, drainElapsed, rpc, closePc>>
    /\ UNCHANGED <<connVars, rtVars, histVars>>
    /\ UNCHANGED ioVars

\* ------------------------------------------------------ host: read task

\* the runtime's send half is shut down, or the process is gone
RuntimeSendClosed == child # "running" \/ wlpc = "done"


\* a read loop that ends at the first Response without an entry
ReadResponseStopsOnUnknown ==
    /\ rpc = "run"
    /\ r2h # <<>>
    /\ LET resp == Head(r2h)
       IN  IF resp.id \in DOMAIN requests_map
           THEN LET c == requests_map[resp.id]
                IN  /\ requests_map' = MapRemove(requests_map, resp.id)
                    /\ chan' = [chan EXCEPT ![c] = Sent(resp.response)]
                    /\ delivered' = [delivered EXCEPT ![c] = resp]
                    /\ UNCHANGED <<discarded, rpc>>
           ELSE /\ discarded' = discarded \cup {resp.id}
                /\ rpc' = "failed"
                /\ requests_map' = MapAfter(requests_map, wpc, "failed")
                /\ chan' = ChanAfter(chan, requests_map, wpc, "failed")
                /\ UNCHANGED delivered
    /\ r2h' = Tail(r2h)
    /\ UNCHANGED <<callState, callResult, queue, senderAlive, current_id, wpc,
                   entry_guard, timers, drainElapsed, closePc>>
    /\ UNCHANGED <<h2r, child, stdinClosed, rtVars, reqId, initCount, initFailed,
                   shutdownSent, sawInitFail, closeInFlight>>
    /\ UNCHANGED ioVars

\* a read loop that completes the handle of a request whose entry is gone
ReadResponseResolvesRemoved ==
    /\ rpc = "run"
    /\ r2h # <<>>
    /\ LET resp == Head(r2h)
           owners == {c \in Callers : reqId[c] = resp.id}
       IN  /\ requests_map' = MapRemove(requests_map, resp.id)
           /\ chan' = [c \in Callers |-> IF c \in owners THEN Sent(resp.response) ELSE chan[c]]
           /\ delivered' = [c \in Callers |-> IF c \in owners THEN resp ELSE delivered[c]]
           /\ UNCHANGED discarded
    /\ r2h' = Tail(r2h)
    /\ UNCHANGED <<callState, callResult, queue, senderAlive, current_id, wpc,
                   entry_guard, timers, drainElapsed, rpc, closePc>>
    /\ UNCHANGED <<h2r, child, stdinClosed, rtVars, reqId, initCount, initFailed,
                   shutdownSent, sawInitFail, closeInFlight>>
    /\ UNCHANGED ioVars

\* one turn of the read loop: a Response is decoded, its entry is removed
\* and completed; a Response without an entry is dropped
ReadResponse ==
    /\ rpc = "run"
    /\ r2h # <<>>
    /\ LET resp == Head(r2h)
       IN  IF resp.id \in DOMAIN requests_map
           THEN LET c == requests_map[resp.id]
                IN  /\ requests_map' = MapRemove(requests_map, resp.id)
                    /\ chan' = [chan EXCEPT ![c] = Sent(resp.response)]
                    /\ delivered' = [delivered EXCEPT ![c] = resp]
                    /\ UNCHANGED discarded
           ELSE /\ discarded' = discarded \cup {resp.id}
                /\ UNCHANGED <<requests_map, chan, delivered>>
    /\ r2h' = Tail(r2h)
    /\ UNCHANGED <<callState, callResult, queue, senderAlive, current_id, wpc,
                   entry_guard, timers, drainElapsed, rpc, closePc>>
    /\ UNCHANGED <<h2r, child, stdinClosed, rtVars, reqId, initCount, initFailed,
                   shutdownSent, sawInitFail, closeInFlight>>
    /\ UNCHANGED ioVars

\* a read task that fails every pending request when the stream ends
ReadEofFailsPending ==
    /\ rpc = "run"
    /\ r2h = <<>>
    /\ RuntimeSendClosed
    /\ rpc' = "done"
    /\ requests_map' = EmptyMap
    /\ chan' = DropSenders(chan, MapSenders(requests_map))
    /\ UNCHANGED <<callState, callResult, queue, senderAlive, current_id, wpc,
                   entry_guard, timers, drainElapsed, closePc>>
    /\ UNCHANGED <<connVars, rtVars, histVars>>
    /\ UNCHANGED ioVars

\* read_response returns None on a clean end of stream: the loop ends
ReadEof ==
    /\ rpc = "run"
    /\ r2h = <<>>
    /\ RuntimeSendClosed
    /\ rpc' = "done"
    /\ requests_map' = MapAfter(requests_map, wpc, "done")
    /\ chan' = ChanAfter(chan, requests_map, wpc, "done")
    /\ UNCHANGED <<callState, callResult, queue, senderAlive, current_id, wpc,
                   entry_guard, timers, drainElapsed, closePc>>
    /\ UNCHANGED <<connVars, rtVars, histVars>>
    /\ UNCHANGED ioVars

\* a drop that only drops the sender and leaves both tasks running
DropDriverLeavesTasks ==
    /\ senderAlive
    /\ closePc = "none"
    /\ NoRunInProgress
    /\ senderAlive' = FALSE
    /\ closePc' = "dropped"
    /\ UNCHANGED <<callState, callResult, chan, queue, current_id, requests_map, wpc,
                   entry_guard, timers, drainElapsed, rpc>>
    /\ UNCHANGED <<connVars, rtVars, histVars>>
    /\ UNCHANGED ioVars

\* Drop for WasmDriver without close: drop(sender), both tasks aborted. The
\* aborted futures drop what they own; the Child is dropped but not killed.
DropDriver ==
    /\ senderAlive
    /\ closePc = "none"
    /\ NoRunInProgress
    /\ senderAlive' = FALSE
    /\ closePc' = "dropped"
    /\ wpc' = IF WriteEnded(wpc) THEN wpc ELSE "aborted"
    /\ rpc' = IF ReadEnded(rpc) THEN rpc ELSE "aborted"
    /\ entry_guard' = NoEntry
    /\ queue' = <<>>
    /\ requests_map' = EmptyMap
    /\ chan' = DropSenders(chan, MapSenders(requests_map) \cup QueueSenders(queue))
    /\ stdinClosed' = TRUE
    /\ UNCHANGED <<callState, callResult, current_id, timers, drainElapsed>>
    /\ UNCHANGED <<h2r, r2h, child, rtVars, histVars>>
    /\ UNCHANGED ioVars

\* ------------------------------------------------------ runtime process

\* the host's send half is shut down or dropped
HostSendClosed == wpc \in {"wait", "done", "failed", "aborted"}


\* a dispatch loop that spawns every Request, absolute or not
DispatchRequestNoValidation ==
    /\ child = "running"
    /\ dpc = "read"
    /\ h2r # <<>>
    /\ Head(h2r).kind = "Request"
    /\ tasks' = MapInsert(tasks, Head(h2r).id,
                    [module |-> Head(h2r).module, data |-> Head(h2r).data, st |-> "start"])
    /\ h2r' = Tail(h2r)
    /\ decodedIds' = decodedIds \cup {Head(h2r).id}
    /\ UNCHANGED <<hostVars, r2h, child, stdinClosed, dpc, cache, storeLock, outq, wlpc,
                   emitted, histVars>>
    /\ UNCHANGED ioVars

\* dispatch loop, one Request: validated, then rejected or spawned
DispatchRequest ==
    /\ child = "running"
    /\ dpc = "read"
    /\ h2r # <<>>
    /\ Head(h2r).kind = "Request"
    /\ LET req == Head(h2r)
       IN  IF ~IsAbsolute(req.module)
           THEN /\ outq' = Append(outq, Response(req.id, Err(<<"not absolute">>)))
                /\ UNCHANGED tasks
           ELSE /\ tasks' = MapInsert(tasks, req.id,
                                [module |-> req.module, data |-> req.data, st |-> "start"])
                /\ UNCHANGED outq
    /\ h2r' = Tail(h2r)
    /\ decodedIds' = decodedIds \cup {Head(h2r).id}
    /\ UNCHANGED <<hostVars, r2h, child, stdinClosed, dpc, cache, storeLock, wlpc,
                   emitted, histVars>>
    /\ UNCHANGED ioVars

\* a dispatch loop that a Shutdown Command alone ends
DispatchStopOnShutdownOnly ==
    /\ child = "running"
    /\ dpc = "read"
    /\ h2r # <<>> /\ Head(h2r).kind = "Shutdown" /\ h2r' = Tail(h2r)
    /\ dpc' = "join"
    /\ UNCHANGED <<hostVars, r2h, child, stdinClosed, tasks, cache, storeLock, outq, wlpc, histVars>>
    /\ UNCHANGED <<decodedIds, emitted>>
    /\ UNCHANGED ioVars

\* dispatch loop: get_request yields None on a Shutdown Command or on a clean
\* end of stream; the loop ends and the spawned tasks are joined
DispatchStop ==
    /\ child = "running"
    /\ dpc = "read"
    /\ \/ h2r # <<>> /\ Head(h2r).kind = "Shutdown" /\ h2r' = Tail(h2r)
       \/ h2r = <<>> /\ HostSendClosed /\ UNCHANGED h2r
    /\ dpc' = "join"
    /\ UNCHANGED <<hostVars, r2h, child, stdinClosed, tasks, cache, storeLock, outq, wlpc, histVars>>
    /\ UNCHANGED <<decodedIds, emitted>>
    /\ UNCHANGED ioVars

\* a dispatch task that ends without joining the request tasks
DispatchJoinedEarly ==
    /\ child = "running"
    /\ dpc = "join"
    /\ dpc' = "done"
    /\ UNCHANGED <<hostVars, connVars, tasks, cache, storeLock, outq, wlpc, histVars>>
    /\ UNCHANGED <<decodedIds, emitted>>
    /\ UNCHANGED ioVars

\* dispatch task: joins.join_next() has returned for every spawned task
DispatchJoined ==
    /\ child = "running"
    /\ dpc = "join"
    /\ \A id \in DOMAIN tasks : tasks[id].st = "done"
    /\ dpc' = "done"
    /\ UNCHANGED <<hostVars, connVars, tasks, cache, storeLock, outq, wlpc, histVars>>
    /\ UNCHANGED <<decodedIds, emitted>>
    /\ UNCHANGED ioVars

SetSt(id, st) == [tasks EXCEPT ![id].st = st]

\* get_or_init_module, first block: the cache entry is found or inserted
\* under the cache mutex
TaskGetCell(id) ==
    /\ child = "running"
    /\ id \in DOMAIN tasks
    /\ tasks[id].st = "start"
    /\ LET m == tasks[id].module
       IN  cache' = [cache EXCEPT ![m] = IF @ = "absent" THEN "empty" ELSE @]
    /\ tasks' = SetSt(id, "cell")
    /\ UNCHANGED <<hostVars, connVars, dpc, storeLock, outq, wlpc, histVars>>
    /\ UNCHANGED <<decodedIds, emitted>>
    /\ UNCHANGED ioVars

\* a lookup that initializes the module again although its cell is set
TaskCellReadyReinit(id) ==
    /\ child = "running"
    /\ id \in DOMAIN tasks
    /\ tasks[id].st = "cell"
    /\ cache[tasks[id].module] = "ready"
    /\ cache' = [cache EXCEPT ![tasks[id].module] = "initing"]
    /\ tasks' = [tasks EXCEPT ![id].st = "init"]
    /\ initCount' = [initCount EXCEPT ![tasks[id].module] = @ + 1]
    /\ UNCHANGED <<hostVars, connVars, dpc, storeLock, outq, wlpc>>
    /\ UNCHANGED <<reqId, delivered, discarded, initFailed, shutdownSent,
                   sawInitFail, closeInFlight>>
    /\ UNCHANGED <<decodedIds, emitted>>
    /\ UNCHANGED ioVars

\* OnceCell::get_or_try_init: the cell is initialized, its value is cloned
TaskCellReady(id) ==
    /\ child = "running"
    /\ id \in DOMAIN tasks
    /\ tasks[id].st = "cell"
    /\ cache[tasks[id].module] = "ready"
    /\ tasks' = SetSt(id, "lock")
    /\ UNCHANGED <<hostVars, connVars, dpc, cache, storeLock, outq, wlpc, histVars>>
    /\ UNCHANGED <<decodedIds, emitted>>
    /\ UNCHANGED ioVars


\* an initialization started without the cell's permit
TaskInitStartNoPermit(id) ==
    /\ child = "running"
    /\ id \in DOMAIN tasks
    /\ tasks[id].st = "cell"
    /\ cache[tasks[id].module] \in {"empty", "initing"}
    /\ cache' = [cache EXCEPT ![tasks[id].module] = "initing"]
    /\ tasks' = [tasks EXCEPT ![id].st = "init"]
    /\ initCount' = [initCount EXCEPT ![tasks[id].module] = @ + 1]
    /\ UNCHANGED <<hostVars, connVars, dpc, storeLock, outq, wlpc>>
    /\ UNCHANGED <<reqId, delivered, discarded, initFailed, shutdownSent,
                   sawInitFail, closeInFlight>>
    /\ UNCHANGED <<decodedIds, emitted>>
    /\ UNCHANGED ioVars

\* OnceCell::get_or_try_init: the cell is not initialized and its permit is
\* free; this task takes the permit and starts WasmDdnsStep::new
TaskInitStart(id) ==
    /\ child = "running"
    /\ id \in DOMAIN tasks
    /\ tasks[id].st = "cell"
    /\ cache[tasks[id].module] = "empty"
    /\ cache' = [cache EXCEPT ![tasks[id].module] = "initing"]
    /\ tasks' = SetSt(id, "init")
    /\ initCount' = [initCount EXCEPT ![tasks[id].module] = @ + 1]
    /\ UNCHANGED <<hostVars, connVars, dpc, storeLock, outq, wlpc>>
    /\ UNCHANGED <<reqId, delivered, discarded, initFailed, shutdownSent,
                   sawInitFail, closeInFlight>>
    /\ UNCHANGED <<decodedIds, emitted>>
    /\ UNCHANGED ioVars

\* WasmDdnsStep::new succeeded: the cell is set
TaskInitOk(id) ==
    /\ child = "running"
    /\ id \in DOMAIN tasks
    /\ tasks[id].st = "init"
    /\ cache' = [cache EXCEPT ![tasks[id].module] = "ready"]
    /\ tasks' = SetSt(id, "lock")
    /\ UNCHANGED <<hostVars, connVars, dpc, storeLock, outq, wlpc, histVars>>
    /\ UNCHANGED <<decodedIds, emitted>>
    /\ UNCHANGED ioVars


\* a failed initialization whose error is kept in the cell: the permit is
\* not released
TaskInitErrPoisons(id) ==
    /\ child = "running"
    /\ id \in DOMAIN tasks
    /\ tasks[id].st = "init"
    /\ cache' = [cache EXCEPT ![tasks[id].module] = "failed"]
    /\ tasks' = [tasks EXCEPT ![id].st = "done"]
    /\ outq' = Append(outq, Response(id, Err(<<"init failed">>)))
    /\ initFailed' = [initFailed EXCEPT ![tasks[id].module] = @ + 1]
    /\ sawInitFail' = sawInitFail \cup
            {w \in DOMAIN tasks : tasks[w].st = "cell" /\ tasks[w].module = tasks[id].module}
    /\ UNCHANGED <<hostVars, connVars, dpc, storeLock, wlpc>>
    /\ UNCHANGED <<reqId, delivered, discarded, initCount, shutdownSent, closeInFlight>>
    /\ UNCHANGED <<decodedIds, emitted>>
    /\ UNCHANGED ioVars

\* a failed initialization that empties the whole module cache
TaskInitErrClearsCache(id) ==
    /\ child = "running"
    /\ id \in DOMAIN tasks
    /\ tasks[id].st = "init"
    /\ cache' = [m \in ModulePaths |-> "empty"]
    /\ tasks' = [tasks EXCEPT ![id].st = "done"]
    /\ outq' = Append(outq, Response(id, Err(<<"init failed">>)))
    /\ initFailed' = [initFailed EXCEPT ![tasks[id].module] = @ + 1]
    /\ sawInitFail' = sawInitFail \cup
            {w \in DOMAIN tasks : tasks[w].st = "cell" /\ tasks[w].module = tasks[id].module}
    /\ UNCHANGED <<hostVars, connVars, dpc, storeLock, wlpc>>
    /\ UNCHANGED <<reqId, delivered, discarded, initCount, shutdownSent, closeInFlight>>
    /\ UNCHANGED <<decodedIds, emitted>>
    /\ UNCHANGED ioVars

\* WasmDdnsStep::new failed: the permit is released with the cell still
\* empty, and the task answers with the error
TaskInitErr(id) ==
    /\ child = "running"
    /\ id \in DOMAIN tasks
    /\ tasks[id].st = "init"
    /\ cache' = [cache EXCEPT ![tasks[id].module] = "empty"]
    /\ tasks' = SetSt(id, "done")
    /\ outq' = Append(outq, Response(id, Err(<<"init failed">>)))
    /\ initFailed' = [initFailed EXCEPT ![tasks[id].module] = @ + 1]
    /\ sawInitFail' = sawInitFail \cup
            {w \in DOMAIN tasks : tasks[w].st = "cell" /\ tasks[w].module = tasks[id].module}
    /\ UNCHANGED <<hostVars, connVars, dpc, storeLock, wlpc>>
    /\ UNCHANGED <<reqId, delivered, discarded, initCount, shutdownSent, closeInFlight>>
    /\ UNCHANGED <<decodedIds, emitted>>
    /\ UNCHANGED ioVars


\* a guest call that does not wait for the store lock
TaskLockNoWait(id) ==
    /\ child = "running"
    /\ id \in DOMAIN tasks
    /\ tasks[id].st = "lock"
    /\ storeLock' = [storeLock EXCEPT ![tasks[id].module] = id]
    /\ tasks' = [tasks EXCEPT ![id].st = "running"]
    /\ UNCHANGED <<hostVars, connVars, dpc, cache, outq, wlpc, histVars>>
    /\ UNCHANGED <<decodedIds, emitted>>
    /\ UNCHANGED ioVars

\* one execution lock shared by every module
TaskLockGlobal(id) ==
    /\ child = "running"
    /\ id \in DOMAIN tasks
    /\ tasks[id].st = "lock"
    /\ \A m \in ModulePaths : storeLock[m] = NoId
    /\ storeLock' = [storeLock EXCEPT ![tasks[id].module] = id]
    /\ tasks' = [tasks EXCEPT ![id].st = "running"]
    /\ UNCHANGED <<hostVars, connVars, dpc, cache, outq, wlpc, histVars>>
    /\ UNCHANGED <<decodedIds, emitted>>
    /\ UNCHANGED ioVars

\* WasmDdnsStep::run: ctx.store.lock() is acquired and the guest is called
TaskLock(id) ==
    /\ child = "running"
    /\ id \in DOMAIN tasks
    /\ tasks[id].st = "lock"
    /\ storeLock[tasks[id].module] = NoId
    /\ storeLock' = [storeLock EXCEPT ![tasks[id].module] = id]
    /\ tasks' = SetSt(id, "running")
    /\ UNCHANGED <<hostVars, connVars, dpc, cache, outq, wlpc, histVars>>
    /\ UNCHANGED <<decodedIds, emitted>>
    /\ UNCHANGED ioVars

GuestOutcomes == {"zero", "nonzero", "trap"}

\* what WasmDdnsStep::run returns, for a guest that copies its input to its
\* output: the output on status 0, the output as the error text otherwise,
\* the trap as an error
GuestResult(outcome, data) ==
    IF outcome = "zero" THEN Ok(data)
    ELSE IF outcome = "nonzero" THEN Err(data)
    ELSE Err(<<"trap">>)

\* a guest failure that leaves the store of its module locked
TaskGuestReturnHoldsLock(id, outcome) ==
    /\ child = "running"
    /\ id \in DOMAIN tasks
    /\ tasks[id].st = "running"
    /\ storeLock' = IF outcome = "zero"
                    THEN [storeLock EXCEPT ![tasks[id].module] = NoId]
                    ELSE storeLock
    /\ tasks' = [tasks EXCEPT ![id].st = "done"]
    /\ outq' = Append(outq, Response(id, GuestResult(outcome, tasks[id].data)))
    /\ UNCHANGED <<hostVars, connVars, dpc, cache, wlpc, histVars>>
    /\ UNCHANGED <<decodedIds, emitted>>
    /\ UNCHANGED ioVars

\* the guest call returns; the store lock is released and the Response sent
TaskGuestReturn(id, outcome) ==
    /\ child = "running"
    /\ id \in DOMAIN tasks
    /\ tasks[id].st = "running"
    /\ storeLock' = [storeLock EXCEPT ![tasks[id].module] = NoId]
    /\ tasks' = SetSt(id, "done")
    /\ outq' = Append(outq, Response(id, GuestResult(outcome, tasks[id].data)))
    /\ UNCHANGED <<hostVars, connVars, dpc, cache, wlpc, histVars>>
    /\ UNCHANGED <<decodedIds, emitted>>
    /\ UNCHANGED ioVars


\* a writer loop that writes each Response twice
WriterWriteTwice ==
    /\ child = "running"
    /\ wlpc = "run"
    /\ outq # <<>>
    /\ ~ReadEnded(rpc)
    /\ r2h' = r2h \o <<Head(outq), Head(outq)>>
    /\ emitted' = [emitted EXCEPT ![Head(outq).id] = @ + 2]
    /\ outq' = Tail(outq)
    /\ UNCHANGED <<hostVars, h2r, child, stdinClosed, dpc, tasks, cache, storeLock, wlpc,
                   decodedIds, histVars>>
    /\ UNCHANGED ioVars

\* writer loop: one Response is taken from the channel and written
WriterWrite ==
    /\ child = "running"
    /\ wlpc = "run"
    /\ outq # <<>>
    /\ ~ReadEnded(rpc)
    /\ r2h' = Append(r2h, Head(outq))
    /\ emitted' = [emitted EXCEPT ![Head(outq).id] = @ + 1]
    /\ outq' = Tail(outq)
    /\ UNCHANGED <<hostVars, h2r, child, stdinClosed, dpc, tasks, cache, storeLock, wlpc,
                   decodedIds, histVars>>
    /\ UNCHANGED ioVars

\* writer loop: the write fails because the host's receive half is gone;
\* the error reaches main, which returns: the process exits
WriterFail ==
    /\ child = "running"
    /\ wlpc = "run"
    /\ outq # <<>>
    /\ ReadEnded(rpc)
    /\ child' = "exited"
    /\ ProcessGone
    /\ UNCHANGED <<hostVars, r2h, stdinClosed, histVars>>
    /\ UNCHANGED ioVars

\* a writer loop that ends as soon as the channel is empty
WriterDoneWhenEmpty ==
    /\ child = "running"
    /\ wlpc = "run"
    /\ outq = <<>>
    /\ wlpc' = "done"
    /\ UNCHANGED <<hostVars, connVars, dpc, tasks, cache, storeLock, outq, histVars>>
    /\ UNCHANGED <<decodedIds, emitted>>
    /\ UNCHANGED ioVars

\* writer loop: rx.recv() yields None once the dispatch task and every request
\* task have dropped their senders; main then shuts the send half down
WriterDone ==
    /\ child = "running"
    /\ wlpc = "run"
    /\ outq = <<>>
    /\ dpc = "done"
    /\ wlpc' = "done"
    /\ UNCHANGED <<hostVars, connVars, dpc, tasks, cache, storeLock, outq, histVars>>
    /\ UNCHANGED <<decodedIds, emitted>>
    /\ UNCHANGED ioVars

\* main: the dispatch task, the writer loop and the stdin watcher have all
\* been joined; main returns
RuntimeExit ==
    /\ child = "running"
    /\ dpc = "done"
    /\ wlpc = "done"
    /\ stdinClosed
    /\ child' = "exited"
    /\ ProcessGone
    /\ UNCHANGED <<hostVars, r2h, stdinClosed, histVars>>
    /\ UNCHANGED ioVars

\* the runtime process dies on its own (the connection is lost)
ChildCrash ==
    /\ child = "running"
    /\ child' = "exited"
    /\ ProcessGone
    /\ UNCHANGED <<hostVars, r2h, stdinClosed, histVars>>
    /\ UNCHANGED ioVars

\* ------------------------------------------------------ specification

Ids == 0..(IdModulus - 1)

Next ==
    \/ \E c \in Callers, m \in ModulePaths : Run(c, m)
    \/ \E c \in Callers : RunReturn(c)
    \/ \E c \in Callers : CancelRun(c)
    \/ Close
    \/ CloseJoinWrite
    \/ CloseJoinRead
    \/ CloseAbortRead
    \/ DropDriver
    \/ WriteRecv
    \/ WriteCommandOk
    \/ WriteCommandErr
    \/ WriteRecvNone
    \/ DrainEmpty
    \/ DrainTimeout
    \/ WriteShutdownOk
    \/ WriteShutdownErr
    \/ WaitChildExit
    \/ WaitChildKill
    \/ \E id \in Ids : TimeoutFire(id)
    \/ ReadResponse
    \/ ReadEof
    \/ DispatchRequest
    \/ DispatchStop
    \/ DispatchJoined
    \/ \E id \in Ids : TaskGetCell(id)
    \/ \E id \in Ids : TaskCellReady(id)
    \/ \E id \in Ids : TaskInitStart(id)
    \/ \E id \in Ids : TaskInitOk(id)
    \/ \E id \in Ids : TaskInitErr(id)
    \/ \E id \in Ids : TaskLock(id)
    \/ \E id \in Ids, o \in GuestOutcomes : TaskGuestReturn(id, o)
    \/ WriterWrite
    \/ WriterFail
    \/ WriterDone
    \/ RuntimeExit
    \/ ChildCrash

Spec == Init /\ [][Next]_vars

\* ------------------------------------------------------ runtime process alone

\* the most Requests the peer of the runtime writes
MaxPeerRequests == 2

\* the peer of the runtime writes a Request on the connection, whatever it
\* has written before
PeerWriteRequest(m) ==
    /\ child = "running"
    /\ current_id < MaxPeerRequests
    /\ h2r' = Append(h2r, RequestCmd(current_id, m, Payload(current_id + 1)))
    /\ current_id' = current_id + 1
    /\ UNCHANGED <<callState, callResult, chan, queue, senderAlive, requests_map, wpc,
                   entry_guard, timers, drainElapsed, rpc, closePc>>
    /\ UNCHANGED <<r2h, child, stdinClosed, rtVars, histVars>>
    /\ UNCHANGED ioVars

\* the peer writes a Shutdown Command, and keeps the connection open
PeerWriteShutdown ==
    /\ child = "running"
    /\ ~shutdownSent
    /\ h2r' = Append(h2r, ShutdownCmd)
    /\ shutdownSent' = TRUE
    /\ UNCHANGED <<hostVars, r2h, child, stdinClosed, rtVars>>
    /\ UNCHANGED <<reqId, delivered, discarded, initCount, initFailed, sawInitFail,
                   closeInFlight>>
    /\ UNCHANGED ioVars

\* stdin watcher: read_line returns Ok(0) or an error, the blocking task ends
StdinEof ==
    /\ child = "running"
    /\ ~stdinClosed
    /\ stdinClosed' = TRUE
    /\ UNCHANGED <<hostVars, h2r, r2h, child, rtVars, histVars>>
    /\ UNCHANGED ioVars

\* the runtime process with any stream of Commands on its connection and a
\* stdin that may end at any time; the connection stays open
RuntimeNext ==
    \/ \E m \in ModulePaths : PeerWriteRequest(m)
    \/ PeerWriteShutdown
    \/ StdinEof
    \/ DispatchRequest
    \/ DispatchStop
    \/ DispatchJoined
    \/ \E id \in Ids : TaskGetCell(id)
    \/ \E id \in Ids : TaskCellReady(id)
    \/ \E id \in Ids : TaskInitStart(id)
    \/ \E id \in Ids : TaskInitOk(id)
    \/ \E id \in Ids : TaskInitErr(id)
    \/ \E id \in Ids : TaskLock(id)
    \/ \E id \in Ids, o \in GuestOutcomes : TaskGuestReturn(id, o)
    \/ WriterWrite
    \/ WriterDone
    \/ RuntimeExit

RuntimeSpec == Init /\ [][RuntimeNext]_vars

\* the tokio runtime of the process runs every task that can make a step,
\* module initializations and guest calls end, and the peer reads the
\* Responses; nothing is assumed of what the peer writes or of stdin
RuntimeFairness ==
    /\ WF_vars(DispatchRequest)
    /\ WF_vars(DispatchStop)
    /\ WF_vars(DispatchJoined)
    /\ \A id \in Ids :
        /\ WF_vars(TaskGetCell(id))
        /\ WF_vars(TaskCellReady(id))
        /\ WF_vars(TaskInitStart(id))
        /\ WF_vars(TaskInitOk(id) \/ TaskInitErr(id))
        /\ SF_vars(TaskLock(id))
        /\ WF_vars(\E o \in GuestOutcomes : TaskGuestReturn(id, o))
    /\ WF_vars(WriterWrite)
    /\ WF_vars(WriterDone)
    /\ WF_vars(RuntimeExit)

RuntimeLiveSpec == RuntimeSpec /\ RuntimeFairness

\* ------------------------------------------------------ request ids

\* how many requests before the new one the guard was created
GuardAge(g) == (idSerial + 2 * IdModulus - g.serial) % (2 * IdModulus)

\* one turn of the write loop: EntryManager::insert takes the next id and
\* inserts the entry, the Request is written, the timeout task takes the
\* guard. An Entry guard lives for REQUEST_TIMEOUT at most, and fewer
\* requests than there are ids are made in that time.
IdInsert ==
    /\ \A i \in 1..Len(idGuards) : GuardAge(idGuards[i]) < IdModulus
    /\ idMap' = MapInsert(idMap, idCurrent, idSerial)
    /\ idGuards' = Append(idGuards, [id |-> idCurrent, serial |-> idSerial])
    /\ idCurrent' = WrappingInc(idCurrent)
    /\ idSerial' = (idSerial + 1) % (2 * IdModulus)
    /\ UNCHANGED notIdVars

\* the read task: the entry of the id of a Response is removed
IdResponse(id) ==
    /\ id \in DOMAIN idMap
    /\ idMap' = MapRemove(idMap, id)
    /\ UNCHANGED <<idCurrent, idSerial, idGuards>>
    /\ UNCHANGED notIdVars

\* a timeout task: its Entry guard is dropped, which removes the entry of
\* the guard's id from the map
IdTimeout(i) ==
    /\ i \in 1..Len(idGuards)
    /\ idMap' = MapRemove(idMap, idGuards[i].id)
    /\ idGuards' = SubSeq(idGuards, 1, i - 1) \o SubSeq(idGuards, i + 1, Len(idGuards))
    /\ UNCHANGED <<idCurrent, idSerial>>
    /\ UNCHANGED notIdVars

IdNext ==
    \/ IdInsert
    \/ \E id \in Ids : IdResponse(id)
    \/ \E i \in 1..IdModulus : IdTimeout(i)

IdSpec == Init /\ [][IdNext]_vars

\* ------------------------------------------------------ open

\* the longest stdout stream of the model
MaxStreamLen == 4

\* a child has not been spawned yet; it will write any stream on its stdout
OpenInit ==
    /\ DriverInit
    /\ stdout_stream \in BoundedSeq(HandshakeBytes, MaxStreamLen)
    /\ stdout_end \in {"eof", "open"}
    /\ openPc = "start"
    /\ openResult = NoResult
    /\ StepInit
    /\ CodecIdle
    /\ IdInit
    /\ SideInit

\* _open: the runtime binary exists and the child is spawned
OpenSpawn ==
    /\ openPc = "start"
    /\ openPc' = "handshake"
    /\ UNCHANGED <<stdout_stream, stdout_end, openResult, notOpenVars>>

\* _open: the runtime binary does not exist, or the spawn fails
OpenSpawnErr ==
    /\ openPc = "start"
    /\ openPc' = "failed"
    /\ openResult' = Err(<<"no wasm driver">>)
    /\ UNCHANGED <<stdout_stream, stdout_end, notOpenVars>>

\* ipc_channel: the handshake is read and parsed
OpenHandshake ==
    /\ openPc = "handshake"
    /\ LET r == IpcChannel(stdout_stream, stdout_end)
       IN  /\ r # Pending
           /\ openPc' = IF r[1] = "Ok" THEN "connect" ELSE "failed"
           /\ openResult' = r
    /\ UNCHANGED <<stdout_stream, stdout_end, notOpenVars>>

\* ipc_channel: LocalSocketStream::connect to the endpoint succeeds (no
\* endpoint has an empty name or a NUL in its name); the tasks are spawned
\* and the driver is returned
OpenConnectOk ==
    /\ openPc = "connect"
    /\ openResult[2] # <<>>
    /\ \A i \in 1..Len(openResult[2]) : openResult[2][i] # NUL
    /\ openPc' = "opened"
    /\ UNCHANGED <<stdout_stream, stdout_end, openResult, notOpenVars>>

\* ipc_channel: the endpoint name is refused or nothing listens there
OpenConnectErr ==
    /\ openPc = "connect"
    /\ openPc' = "failed"
    /\ openResult' = Err(<<"connect">>)
    /\ UNCHANGED <<stdout_stream, stdout_end, notOpenVars>>

\* timeout(15 s, ipc_channel(..)) elapsed
OpenTimeout ==
    /\ openPc \in {"handshake", "connect"}
    /\ openPc' = "failed"
    /\ openResult' = Err(<<"could not connect to child.. timed out">>)
    /\ UNCHANGED <<stdout_stream, stdout_end, notOpenVars>>

OpenNext ==
    \/ OpenSpawn
    \/ OpenSpawnErr
    \/ OpenHandshake
    \/ OpenConnectOk
    \/ OpenConnectErr
    \/ OpenTimeout

OpenSpec == OpenInit /\ [][OpenNext]_vars

\* ------------------------------------------------------ handshake, both sides

\* the longest endpoint name of the model
MaxNameLen == 10

DigitChar(d) ==
    CASE d = 0 -> "0" [] d = 1 -> "1" [] d = 2 -> "2" [] d = 3 -> "3" [] d = 4 -> "4"
      [] d = 5 -> "5" [] d = 6 -> "6" [] d = 7 -> "7" [] d = 8 -> "8" [] d = 9 -> "9"

\* itoa::Buffer::format: the decimal digits of the number, no leading zero
RECURSIVE Itoa(_)
Itoa(n) == IF n < 10 THEN <<DigitChar(n)>> ELSE Append(Itoa(n \div 10), DigitChar(n % 10))

\* the runtime's msg: the decimal length of the name, a NUL, the name
RuntimeHandshake(name) == Itoa(Len(name)) \o <<NUL>> \o name

\* the endpoint names of the model: a temporary path or a pipe name, text
\* without a NUL, of a length whose digits the host's stream alphabet holds
EndpointNames ==
    UNION {[1..n -> {"a", "1"}] : n \in {k \in 1..MaxNameLen :
                                          \A i \in 1..Len(Itoa(k)) : Itoa(k)[i] \in Digits}}

\* the host is about to spawn the runtime, which has chosen its endpoint name
HandshakeInit ==
    /\ DriverInit /\ StepInit /\ CodecIdle /\ IdInit /\ gcPc = "sleep" /\ LockInit
    /\ stdout_stream = <<>>
    /\ stdout_end = "open"
    /\ openPc = "start"
    /\ openResult = NoResult
    /\ endpoint \in EndpointNames
    /\ listener = "none"
    /\ ipcPc = "start"
    /\ backlog = 0
    /\ accepted = 0

notHandshakeVars == <<driverVars, stepVars, codecVars, idVars, gcPc, lockVars>>

\* listener_opts.create_tokio()?: the runtime listens on the endpoint
IpcListen ==
    /\ openPc # "start"
    /\ ipcPc = "start"
    /\ ipcPc' = "listening"
    /\ listener' = "listening"
    /\ UNCHANGED <<endpoint, backlog, accepted, openVars, notHandshakeVars>>

\* create_tokio fails: ipc_channel returns the error and the process ends
\* without a byte on its stdout
IpcListenErr ==
    /\ openPc # "start"
    /\ ipcPc = "start"
    /\ ipcPc' = "failed"
    /\ stdout_end' = "eof"
    /\ UNCHANGED <<endpoint, listener, backlog, accepted, stdout_stream, openPc,
                   openResult, notHandshakeVars>>

\* a runtime that publishes the name before it listens
IpcWriteBeforeListen(k) ==
    /\ openPc # "start"
    /\ ipcPc = "start"
    /\ k \in 0..Len(RuntimeHandshake(endpoint))
    /\ stdout_stream' = SubSeq(RuntimeHandshake(endpoint), 1, k)
    /\ ipcPc' = "written"
    /\ UNCHANGED <<endpoint, listener, backlog, accepted, stdout_end, openPc,
                   openResult, notHandshakeVars>>

\* stdout.write_all(&msg): the message is in the buffer of stdout, and any
\* part of it may have reached the pipe already
IpcWrite(k) ==
    /\ ipcPc = "listening"
    /\ k \in 0..Len(RuntimeHandshake(endpoint))
    /\ stdout_stream' = SubSeq(RuntimeHandshake(endpoint), 1, k)
    /\ ipcPc' = "written"
    /\ UNCHANGED <<endpoint, listener, backlog, accepted, stdout_end, openPc,
                   openResult, notHandshakeVars>>

\* stdout.flush(): the whole message has reached the pipe
IpcFlush ==
    /\ ipcPc = "written"
    /\ stdout_stream' = RuntimeHandshake(endpoint)
    /\ ipcPc' = "accept"
    /\ UNCHANGED <<endpoint, listener, backlog, accepted, stdout_end, openPc,
                   openResult, notHandshakeVars>>

\* listener.accept().await, once: the connection is taken, ipc_channel
\* returns its halves and the listener goes out of scope
IpcAccept ==
    /\ ipcPc = "accept"
    /\ backlog > 0
    /\ backlog' = backlog - 1
    /\ accepted' = accepted + 1
    /\ ipcPc' = "done"
    /\ listener' = "dropped"
    /\ UNCHANGED <<endpoint, openVars, notHandshakeVars>>

\* LocalSocketStream::connect(path): it succeeds when the runtime listens on
\* the name the host has parsed, and fails otherwise
HostConnect ==
    /\ openPc = "connect"
    /\ IF listener = "listening" /\ openResult = Ok(endpoint)
       THEN /\ backlog' = backlog + 1
            /\ openPc' = "opened"
            /\ UNCHANGED openResult
       ELSE /\ openPc' = "failed"
            /\ openResult' = Err(<<"connect">>)
            /\ UNCHANGED backlog
    /\ UNCHANGED <<endpoint, listener, ipcPc, accepted, stdout_stream, stdout_end,
                   notHandshakeVars>>

HandshakeNext ==
    \/ OpenSpawn
    \/ OpenSpawnErr
    \/ OpenHandshake
    \/ OpenTimeout
    \/ HostConnect
    \/ IpcListen
    \/ IpcListenErr
    \/ \E k \in 0..(MaxNameLen + 3) : IpcWrite(k)
    \/ IpcFlush
    \/ IpcAccept

HandshakeSpec == HandshakeInit /\ [][HandshakeNext]_vars

\* ------------------------------------------------------ the shared driver

\* the most drivers opened
MaxDrivers == 4

notLockVars == <<driverVars, openVars, stepVars, codecVars, idVars, gcPc, hsVars>>

\* with_wasm_driver: WASM_DRIVER.read().await gives the guard while no writer
\* holds the lock and none waits for it (the lock is fair)
WithDriverRead(c) ==
    /\ wdPc[c] = "idle"
    /\ ~rwWriter
    /\ clPc # "wait"
    /\ rwReaders' = rwReaders \cup {c}
    /\ wdPc' = [wdPc EXCEPT ![c] = "read"]
    /\ UNCHANGED <<cell, rwWriter, clPc, closing, wdDriver, opened, notLockVars>>

\* with_wasm_driver: get_or_try_init gives the driver of the cell, or opens
\* one and sets the cell; the lambda starts its run call on that driver
WithDriverInit(c) ==
    /\ wdPc[c] = "read"
    /\ IF cell # 0
       THEN /\ wdDriver' = [wdDriver EXCEPT ![c] = cell]
            /\ UNCHANGED <<cell, opened>>
       ELSE /\ opened < MaxDrivers
            /\ opened' = opened + 1
            /\ cell' = opened + 1
            /\ wdDriver' = [wdDriver EXCEPT ![c] = opened + 1]
    /\ wdPc' = [wdPc EXCEPT ![c] = "run"]
    /\ UNCHANGED <<rwWriter, rwReaders, clPc, closing, notLockVars>>

\* with_wasm_driver: __try_get_driver fails, `?` returns the error and the
\* guard is dropped with the cell still empty
WithDriverInitErr(c) ==
    /\ wdPc[c] = "read"
    /\ cell = 0
    /\ rwReaders' = rwReaders \ {c}
    /\ wdPc' = [wdPc EXCEPT ![c] = "idle"]
    /\ UNCHANGED <<cell, rwWriter, clPc, closing, wdDriver, opened, notLockVars>>

\* with_wasm_driver: the lambda's run call has returned (or the whole future
\* is dropped); the guard is dropped at the end of the block
WithDriverReturn(c) ==
    /\ wdPc[c] = "run"
    /\ rwReaders' = rwReaders \ {c}
    /\ wdPc' = [wdPc EXCEPT ![c] = "idle"]
    /\ wdDriver' = [wdDriver EXCEPT ![c] = 0]
    /\ UNCHANGED <<cell, rwWriter, clPc, closing, opened, notLockVars>>

\* cleanup routine: the interval has ticked, WASM_DRIVER.write() is awaited
CleanupTick ==
    /\ clPc = "tick"
    /\ clPc' = "wait"
    /\ UNCHANGED <<cell, rwWriter, rwReaders, closing, wdPc, wdDriver, opened, notLockVars>>

\* a cleanup routine that takes the driver without waiting for the readers
CleanupTakeNoWait ==
    /\ clPc = "wait"
    /\ IF cell # 0
       THEN /\ closing' = cell
            /\ cell' = 0
            /\ rwWriter' = TRUE
            /\ clPc' = "closing"
       ELSE /\ clPc' = "tick"
            /\ UNCHANGED <<cell, closing, rwWriter>>
    /\ UNCHANGED <<rwReaders, wdPc, wdDriver, opened, notLockVars>>

\* cleanup routine: the write guard is granted once no read guard is held;
\* take() empties the cell; with a driver taken the guard is kept for the
\* body of the if let, without one it is dropped at once
CleanupTake ==
    /\ clPc = "wait"
    /\ rwReaders = {}
    /\ IF cell # 0
       THEN /\ closing' = cell
            /\ cell' = 0
            /\ rwWriter' = TRUE
            /\ clPc' = "closing"
       ELSE /\ clPc' = "tick"
            /\ UNCHANGED <<cell, closing, rwWriter>>
    /\ UNCHANGED <<rwReaders, wdPc, wdDriver, opened, notLockVars>>

\* cleanup routine: driver.close().await has returned, with or without an
\* error; the write guard is dropped at the end of the if let
CleanupClose ==
    /\ clPc = "closing"
    /\ closing' = 0
    /\ rwWriter' = FALSE
    /\ clPc' = "tick"
    /\ UNCHANGED <<cell, rwReaders, wdPc, wdDriver, opened, notLockVars>>

LockNext ==
    \/ \E c \in Callers : WithDriverRead(c)
    \/ \E c \in Callers : WithDriverInit(c)
    \/ \E c \in Callers : WithDriverInitErr(c)
    \/ \E c \in Callers : WithDriverReturn(c)
    \/ CleanupTick
    \/ CleanupTake
    \/ CleanupClose

LockSpec == Init /\ [][LockNext]_vars

\* ------------------------------------------------------ module executor

\* the calls of run the model makes on the module
MaxCalls == 2
\* the range of u32, scaled down: a length from U32Range on does not fit
U32Range == 3
\* the most bytes a guest writes during one call
MaxWrite == 2

\* the bytes of a payload or of a guest's output: a letter, and a byte that
\* occurs in no UTF-8 text
DataBytes == {"a", "FF"}

\* a write that appends to what the buffer holds
PipeWriteAppends(pipe, data) == pipe \o data

\* ReadWritePipe::write: the buffer is cleared, then filled with the data
PipeWrite(pipe, data) == data

\* a take_output that copies the buffer and leaves it filled
PipeTakeOutputKeeps(pipe) == [output |-> pipe, data |-> pipe]

\* ReadWritePipe::take_output: the content of the buffer is copied out and
\* the buffer is cleared
PipeTakeOutput(pipe) == [output |-> pipe, data |-> <<>>]

\* String::from_utf8_lossy(&output): every byte that is not UTF-8 becomes
\* U+FFFD
FromUtf8Lossy(bytes) == [i \in 1..Len(bytes) |-> IF bytes[i] = "FF" THEN "U+FFFD" ELSE bytes[i]]

\* the guest call of the current run copied its input to its output
Echoed == guestRead = stepData /\ guestWrote = stepData

\* WasmDdnsStep::run up to call_async: the length is checked, the store lock
\* is taken, the data is put in the input pipe
StepRun(data) ==
    /\ stepPc = "idle"
    /\ calls < MaxCalls
    /\ Len(data) < U32Range => gcPc = "sleep"
    /\ calls' = calls + 1
    /\ stepData' = data
    /\ stdinLeft' = stdin_pipe
    /\ IF Len(data) >= U32Range
       THEN /\ stepResult' = Err(<<"data capacity overflow">>)
            /\ UNCHANGED <<stdin_pipe, stepPc, stepLen, guestRead, guestWrote>>
       ELSE /\ stdin_pipe' = PipeWrite(stdin_pipe, data)
            /\ stepLen' = Len(data)
            /\ stepPc' = "guest"
            /\ guestRead' = <<>>
            /\ guestWrote' = <<>>
            /\ UNCHANGED stepResult
    /\ UNCHANGED <<stdout_pipe, allEcho, notStepVars>>

\* the guest reads from its stdin: SharedCtxFile::read_vectored takes bytes
\* from the front of the input pipe
GuestRead(n) ==
    /\ stepPc = "guest"
    /\ n \in 1..Len(stdin_pipe)
    /\ guestRead' = guestRead \o SubSeq(stdin_pipe, 1, n)
    /\ stdin_pipe' = SubSeq(stdin_pipe, n + 1, Len(stdin_pipe))
    /\ UNCHANGED <<stdout_pipe, stepPc, stepData, stepLen, stepResult, guestWrote,
                   calls, allEcho, stdinLeft, notStepVars>>

\* the guest writes to its stdout: SharedCtxFile::write_vectored appends to
\* the output pipe
GuestWrite(b) ==
    /\ stepPc = "guest"
    /\ Len(guestWrote) < MaxWrite
    /\ stdout_pipe' = Append(stdout_pipe, b)
    /\ guestWrote' = Append(guestWrote, b)
    /\ UNCHANGED <<stdin_pipe, stepPc, stepData, stepLen, stepResult, guestRead,
                   calls, allEcho, stdinLeft, notStepVars>>

\* a run that returns the output whatever the status
GuestReturnIgnoresStatus(status) ==
    /\ stepPc = "guest"
    /\ LET taken == PipeTakeOutput(stdout_pipe)
       IN  /\ stdout_pipe' = taken.data
           /\ stepResult' = Ok(taken.output)
    /\ stepPc' = "idle"
    /\ allEcho' = (allEcho /\ Echoed /\ status = 0)
    /\ UNCHANGED <<stdin_pipe, stepData, stepLen, guestRead, guestWrote, calls,
                   stdinLeft, notStepVars>>

\* call_async returns a status: the output is taken; status 0 gives the
\* output, any other status gives the output as the text of an error
GuestReturn(status) ==
    /\ stepPc = "guest"
    /\ LET taken == PipeTakeOutput(stdout_pipe)
       IN  /\ stdout_pipe' = taken.data
           /\ stepResult' = IF status = 0 THEN Ok(taken.output)
                             ELSE Err(FromUtf8Lossy(taken.output))
    /\ stepPc' = "idle"
    /\ allEcho' = (allEcho /\ Echoed /\ status = 0)
    /\ UNCHANGED <<stdin_pipe, stepData, stepLen, guestRead, guestWrote, calls,
                   stdinLeft, notStepVars>>

\* call_async returns an error (the guest trapped): `?` returns it at once
GuestTrap ==
    /\ stepPc = "guest"
    /\ stepResult' = Err(<<"trap">>)
    /\ stepPc' = "idle"
    /\ allEcho' = FALSE
    /\ UNCHANGED <<stdin_pipe, stdout_pipe, stepData, stepLen, guestRead, guestWrote,
                   calls, stdinLeft, notStepVars>>

\* SharedCtx::gc, first statement: the gc task takes the store lock, which it
\* gets only while no call of run holds it
GcLock ==
    /\ gcPc = "sleep"
    /\ stepPc = "idle"
    /\ gcPc' = "locked"
    /\ UNCHANGED <<driverVars, openVars, stepVars, codecVars, idVars, hsVars, lockVars>>

\* a gc that empties the buffer
PipeGcClears(pipe) == <<>>

\* ReadWritePipe::gc: shrink_to_fit gives the unused capacity back and keeps
\* the bytes
PipeGc(pipe) == pipe

\* SharedCtx::gc, the rest: the store and both pipes are reclaimed, and the
\* lock is released when gc returns
GcRun ==
    /\ gcPc = "locked"
    /\ stdin_pipe' = PipeGc(stdin_pipe)
    /\ stdout_pipe' = PipeGc(stdout_pipe)
    /\ gcPc' = "sleep"
    /\ UNCHANGED <<stepPc, stepData, stepLen, stepResult, guestRead, guestWrote,
                   calls, allEcho, stdinLeft>>
    /\ UNCHANGED <<driverVars, openVars, codecVars, idVars, hsVars, lockVars>>

StepNext ==
    \/ GcLock
    \/ GcRun
    \/ \E data \in BoundedSeq(DataBytes, U32Range) : StepRun(data)
    \/ \E n \in 1..U32Range : GuestRead(n)
    \/ \E b \in DataBytes : GuestWrite(b)
    \/ \E status \in {0, 1} : GuestReturn(status)
    \/ GuestTrap

StepSpec == Init /\ [][StepNext]_vars

\* ------------------------------------------------------ wire codec

\* the Commands of the model: ids of one and of two bytes, module paths and
\* data of up to two bytes
Commands ==
    {ShutdownMsg} \cup
    {RequestMsg(id, m, d) : id \in {0, 1, 258}, m \in {<<>>, <<97>>, <<47, 97>>},
                            d \in {<<>>, <<0>>, <<97, 255>>}}

\* the Responses of the model: Ok with data, Err with a text
Responses ==
    {ResponseMsg(id, TRUE, d) : id \in {0, 1, 258}, d \in {<<>>, <<0>>, <<97, 255>>}} \cup
    {ResponseMsg(id, FALSE, t) : id \in {0, 1, 258}, t \in {<<>>, <<101>>}}

\* an integer as w bytes, little endian (fixed-width integer encoding)
RECURSIVE LeBytes(_, _)
LeBytes(n, w) == IF w = 0 THEN <<>> ELSE <<n % 256>> \o LeBytes(n \div 256, w - 1)

\* the integer that little-endian bytes write
RECURSIVE FromLe(_)
FromLe(bytes) == IF bytes = <<>> THEN 0 ELSE bytes[1] + 256 * FromLe(Tail(bytes))

\* bincode of &[u8], Vec<u8>, &str, String: the length as u64, then the bytes
EncodeBytes(b) == LeBytes(Len(b), 8) \o b

\* #[derive(Encode)] of WasmCommand: the variant index as u32, then the
\* fields of Request in order
EncodeCommand(cmd) ==
    IF cmd.kind = "Shutdown" THEN LeBytes(0, 4)
    ELSE LeBytes(1, 4) \o LeBytes(cmd.id, 8) \o EncodeBytes(cmd.module) \o EncodeBytes(cmd.data)

\* #[derive(Encode)] of Response: id, then the Result as its variant index
\* (Ok 0, Err 1) and its content
EncodeResponse(r) ==
    LeBytes(r.id, 8) \o LeBytes(IF r.ok THEN 0 ELSE 1, 4) \o EncodeBytes(r.data)

\* a frame whose length field counts its own 8 bytes too
WriteFrameCountsPrefix(payload) == LeBytes(Len(payload) + 8, 8) \o payload

\* write_command (both sides): the size of the encoding as u64 little
\* endian, then the encoding
WriteFrame(payload) == LeBytes(Len(payload), 8) \o payload

\* decoding a fixed-width integer of w bytes at position pos
TakeInt(buf, pos, w) ==
    IF pos + w - 1 > Len(buf) THEN [ok |-> FALSE, val |-> 0, next |-> 0]
    ELSE [ok |-> TRUE, val |-> FromLe(SubSeq(buf, pos, pos + w - 1)), next |-> pos + w]

\* decoding a length-prefixed byte sequence at position pos
TakeBytes(buf, pos) ==
    LET l == TakeInt(buf, pos, 8)
    IN  IF ~l.ok THEN [ok |-> FALSE, val |-> <<>>, next |-> 0]
        ELSE IF l.next + l.val - 1 > Len(buf) THEN [ok |-> FALSE, val |-> <<>>, next |-> 0]
        ELSE [ok |-> TRUE, val |-> SubSeq(buf, l.next, l.next + l.val - 1),
              next |-> l.next + l.val]

\* a String is decoded from UTF-8 only
ValidUtf8(b) == \A i \in 1..Len(b) : b[i] < 128

NotDecoded == [ok |-> FALSE, msg |-> NoMsg]

\* #[derive(Decode)] of WasmCommand (runtime); bytes after the value are
\* ignored by decode_from_slice
DecodeCommand(buf) ==
    LET v == TakeInt(buf, 1, 4)
    IN  IF ~v.ok THEN NotDecoded
        ELSE IF v.val = 0 THEN [ok |-> TRUE, msg |-> ShutdownMsg]
        ELSE IF v.val # 1 THEN NotDecoded
        ELSE LET id == TakeInt(buf, v.next, 8)
             IN  IF ~id.ok THEN NotDecoded
                 ELSE LET m == TakeBytes(buf, id.next)
                      IN  IF ~m.ok \/ ~ValidUtf8(m.val) THEN NotDecoded
                          ELSE LET d == TakeBytes(buf, m.next)
                               IN  IF ~d.ok THEN NotDecoded
                                   ELSE [ok |-> TRUE, msg |-> RequestMsg(id.val, m.val, d.val)]

\* #[derive(Decode)] of Response (host)
DecodeResponse(buf) ==
    LET id == TakeInt(buf, 1, 8)
    IN  IF ~id.ok THEN NotDecoded
        ELSE LET v == TakeInt(buf, id.next, 4)
             IN  IF ~v.ok \/ v.val \notin {0, 1} THEN NotDecoded
                 ELSE LET b == TakeBytes(buf, v.next)
                      IN  IF ~b.ok \/ (v.val = 1 /\ ~ValidUtf8(b.val)) THEN NotDecoded
                          ELSE [ok |-> TRUE, msg |-> ResponseMsg(id.val, v.val = 0, b.val)]

StreamClosed == [tag |-> "Closed", msg |-> NoMsg]
ProtocolError == [tag |-> "Error", msg |-> NoMsg]
Some(m) == [tag |-> "Some", msg |-> m]

\* WasmDriver::read_response on a stream that ends after the given bytes:
\* read_u64_le fails with UnexpectedEof when fewer than 8 bytes are left,
\* and that is returned as None
ReadResponseOf(stream) ==
    IF Len(stream) < 8 THEN StreamClosed
    ELSE LET resp_len == FromLe(SubSeq(stream, 1, 8))
             rest == SubSeq(stream, 9, Len(stream))
             resp_buffer == IF resp_len < Len(rest) THEN SubSeq(rest, 1, resp_len) ELSE rest
         IN  IF Len(resp_buffer) # resp_len THEN ProtocolError
             ELSE IF ~DecodeResponse(resp_buffer).ok THEN ProtocolError
             ELSE Some(DecodeResponse(resp_buffer).msg)

\* get_request (runtime) on a stream that ends after the given bytes:
\* UnexpectedEof of read_u64_le is returned as None, like Shutdown;
\* read_exact of the payload fails when the stream ends first
GetRequestOf(stream) ==
    IF Len(stream) < 8 THEN StreamClosed
    ELSE LET sz == FromLe(SubSeq(stream, 1, 8))
             buf == SubSeq(stream, 9, Len(stream))
         IN  IF Len(buf) < sz THEN ProtocolError
             ELSE LET req == DecodeCommand(SubSeq(buf, 1, sz))
                  IN  IF ~req.ok THEN ProtocolError
                      ELSE IF req.msg.kind = "Shutdown" THEN StreamClosed
                      ELSE Some(req.msg)

\* one message is about to be written, by the host or by the runtime
CodecInit ==
    /\ DriverInit /\ OpenedInit /\ StepInit /\ IdInit /\ SideInit
    /\ codecMsg \in Commands \cup Responses
    /\ codecPc = "start"
    /\ frame = <<>>
    /\ wire = <<>>
    /\ decoded = [tag |-> "None", msg |-> NoMsg]

\* WasmDriver::write_command (host): a Command is encoded into a frame
HostWriteCommand ==
    /\ codecPc = "start"
    /\ codecMsg.kind \in {"Shutdown", "Request"}
    /\ frame' = WriteFrame(EncodeCommand(codecMsg))
    /\ codecPc' = "written"
    /\ UNCHANGED <<codecMsg, wire, decoded, notCodecVars>>

\* write_command (runtime): a Response is encoded into a frame
RuntimeWriteCommand ==
    /\ codecPc = "start"
    /\ codecMsg.kind = "Response"
    /\ frame' = WriteFrame(EncodeResponse(codecMsg))
    /\ codecPc' = "written"
    /\ UNCHANGED <<codecMsg, wire, decoded, notCodecVars>>

\* the stream ends after n bytes of the frame: all of it, or less when the
\* writer goes away in the middle
StreamEnds(n) ==
    /\ codecPc = "written"
    /\ n \in 0..Len(frame)
    /\ wire' = SubSeq(frame, 1, n)
    /\ codecPc' = "closed"
    /\ UNCHANGED <<codecMsg, frame, decoded, notCodecVars>>

\* WasmDriver::read_response (host) reads what arrived of a Response
HostReadResponse ==
    /\ codecPc = "closed"
    /\ codecMsg.kind = "Response"
    /\ decoded' = ReadResponseOf(wire)
    /\ codecPc' = "read"
    /\ UNCHANGED <<codecMsg, frame, wire, notCodecVars>>

\* get_request (runtime) reads what arrived of a Command
RuntimeGetRequest ==
    /\ codecPc = "closed"
    /\ codecMsg.kind \in {"Shutdown", "Request"}
    /\ decoded' = GetRequestOf(wire)
    /\ codecPc' = "read"
    /\ UNCHANGED <<codecMsg, frame, wire, notCodecVars>>

CodecNext ==
    \/ HostWriteCommand
    \/ RuntimeWriteCommand
    \/ \E n \in 0..Len(frame) : StreamEnds(n)
    \/ HostReadResponse
    \/ RuntimeGetRequest

CodecSpec == CodecInit /\ [][CodecNext]_vars

\* The host's tasks run on one tokio executor, which polls every ready task,
\* and its timers fire: the write task takes its next step, a write on the
\* connection completes or fails, a timeout task wakes up, and a run call
\* whose handle has resolved returns. Nothing is assumed of the runtime
\* process, of the guest calls or of the read task.
Fairness ==
    /\ WF_vars(WriteRecv)
    /\ WF_vars(WriteCommandOk)
    /\ WF_vars(WriteCommandErr)
    /\ \A id \in Ids : WF_vars(TimeoutFire(id))
    /\ \A c \in Callers : WF_vars(RunReturn(c))

LiveSpec == Spec /\ Fairness

\* close and the write task's shutdown sequence run on the same executor, and
\* their timers fire: the drain sleep, the wait for the child and the bounded
\* join of the read task. Still nothing is assumed of the runtime process, of
\* the guest calls or of the read task.
CloseFairness ==
    /\ WF_vars(WriteRecvNone)
    /\ WF_vars(DrainTimeout)
    /\ WF_vars(WriteShutdownOk)
    /\ WF_vars(WriteShutdownErr)
    /\ WF_vars(WaitChildExit)
    /\ WF_vars(WaitChildKill)
    /\ WF_vars(CloseJoinWrite)
    /\ WF_vars(CloseJoinRead)
    /\ WF_vars(CloseAbortRead)

CloseLiveSpec == LiveSpec /\ CloseFairness

\* the runtime process after the host has gone: its tasks run, module
\* initializations and guest calls end, and a write on the connection whose
\* peer is gone fails
DropFairness == RuntimeFairness /\ WF_vars(WriterFail)

\* the runtime process and a host that writes any stream of Commands and
\* then, at any time, drops the driver without close; a dropped driver
\* writes nothing more
DropNext ==
    \/ /\ closePc = "none"
       /\ \/ \E m \in ModulePaths : PeerWriteRequest(m)
          \/ PeerWriteShutdown
    \/ DropDriver
    \/ StdinEof
    \/ DispatchRequest
    \/ DispatchStop
    \/ DispatchJoined
    \/ \E id \in Ids : TaskGetCell(id)
    \/ \E id \in Ids : TaskCellReady(id)
    \/ \E id \in Ids : TaskInitStart(id)
    \/ \E id \in Ids : TaskInitOk(id)
    \/ \E id \in Ids : TaskInitErr(id)
    \/ \E id \in Ids : TaskLock(id)
    \/ \E id \in Ids, o \in GuestOutcomes : TaskGuestReturn(id, o)
    \/ WriterWrite
    \/ WriterFail
    \/ WriterDone
    \/ RuntimeExit

DropLiveSpec == Init /\ [][DropNext]_vars /\ DropFairness

\* ------------------------------------------------------ claims

Resolved(c) == chan[c][1] = "sent"

\* C1 Correlation integrity: a completion handle that is resolved with a
\* result holds the result of the Response whose id is the id the write task
\* assigned to that request, and never the payload of another request.
C1_CorrelationIntegrity ==
    \A c \in Callers :
        Resolved(c) =>
            /\ delivered[c].id = reqId[c]
            /\ chan[c] = Sent(delivered[c].response)
            /\ \A d \in Callers \ {c} : delivered[c].response[2] # Payload(d)

\* two requests are in flight together and the later one is answered first
C1_Witness ==
    \E c, d \in Callers :
        /\ reqId[d] # NoId
        /\ reqId[c] > reqId[d]
        /\ Resolved(c)
        /\ delivered[c].response = Ok(Payload(c))
        /\ chan[d] = Open
        /\ reqId[d] \in DOMAIN requests_map

\* C2 Every call to run eventually returns to its caller (or is given up by
\* it), whatever the runtime does.
C2_RunReturns ==
    \A c \in Callers : (callState[c] = "waiting") ~> (callState[c] # "waiting")

\* every run call has returned: one with the timeout error, its request
\* written and never answered, and one after the connection was lost
C2_Witness ==
    /\ child = "exited"
    /\ \A c \in Callers : callState[c] = "returned"
    /\ \E c \in Callers :
          /\ callResult[c] = Err(<<"request timeout">>)
          /\ reqId[c] # NoId
          /\ reqId[c] \notin timers
          /\ reqId[c] \notin discarded
    /\ \E c \in Callers : callResult[c] = Err(<<"channel closed">>)

\* the step is the timeout of request id firing while its entry is in the map
TimeoutStep(id) ==
    /\ id \in timers
    /\ id \notin timers'
    /\ id \in DOMAIN requests_map

TimedOut == Err(<<"request timeout">>)

\* C3 Timeout cancellation: a timeout that fires before the Response removes
\* the entry and cancels the handle; a cancelled handle never gets a result,
\* and the run call awaiting it returns the request-timeout error.
C3_TimeoutCancels ==
    /\ [][\A id \in Ids :
             TimeoutStep(id) =>
                 /\ id \notin DOMAIN requests_map'
                 /\ chan'[requests_map[id]] = Closed]_vars
    /\ [][\A c \in Callers : chan[c] = Closed => chan'[c] = Closed]_vars
    /\ \A c \in Callers :
          (chan[c] = Closed /\ callState[c] = "waiting")
              ~> (callState[c] = "dropped"
                    \/ (callState[c] = "returned" /\ callResult[c] = TimedOut))

\* the timeout of a request fired with its Response still outstanding, its
\* caller got the timeout error, and the late Response was then discarded
C3_Witness ==
    \E c \in Callers :
        /\ reqId[c] # NoId
        /\ reqId[c] \notin timers
        /\ callState[c] = "returned"
        /\ callResult[c] = TimedOut
        /\ reqId[c] \in discarded
        /\ child = "running"
        /\ wpc = "recv"

\* the step is a turn of the read loop on a Response without an entry
DiscardStep ==
    /\ rpc = "run"
    /\ r2h # <<>>
    /\ r2h' = Tail(r2h)
    /\ Head(r2h).id \notin DOMAIN requests_map

\* C4 A Response whose id has no Correlation Entry is discarded: no handle is
\* completed, the map is unchanged and the read loop goes on.
C4_UnknownResponseDiscarded ==
    [][DiscardStep =>
          /\ requests_map' = requests_map
          /\ chan' = chan
          /\ delivered' = delivered
          /\ rpc' = "run"]_vars

\* a late Response of a timed-out request was discarded, the loop still runs
\* and the next Response on the stream has an entry to be delivered to
C4_Witness ==
    /\ \E c \in Callers : reqId[c] \in discarded /\ chan[c] = Closed
    /\ rpc = "run"
    /\ r2h # <<>>
    /\ Head(r2h).id \in DOMAIN requests_map

TasksIn(m, st) == {id \in DOMAIN tasks : tasks[id].module = m /\ tasks[id].st = st}

\* C5 Serialization per module: at most one guest call is executing inside a
\* module's store, and it is the call of the holder of the store lock.
C5_SerializedPerModule ==
    \A m \in ModulePaths :
        /\ Cardinality(TasksIn(m, "running")) <= 1
        /\ \A id \in TasksIn(m, "running") : storeLock[m] = id

\* one guest call runs while a second Request for the same module waits for
\* the lock
C5_Witness ==
    \E m \in ModulePaths : TasksIn(m, "running") # {} /\ TasksIn(m, "lock") # {}

\* C6 Cross-module concurrency: while a guest call of one module is running,
\* every step of a Request for another module stays possible: it is
\* dispatched, gets its cell, initializes, takes its own lock and returns.
C6_CrossModuleConcurrency ==
    \A a \in DOMAIN tasks :
        tasks[a].st = "running" =>
            /\ (dpc = "read" /\ h2r # <<>> /\ Head(h2r).kind = "Request")
                   => ENABLED DispatchRequest
            /\ \A b \in DOMAIN tasks :
                  tasks[b].module # tasks[a].module =>
                      /\ tasks[b].st = "start" => ENABLED TaskGetCell(b)
                      /\ (tasks[b].st = "cell" /\ TasksIn(tasks[b].module, "init") = {}) =>
                             ENABLED (TaskInitStart(b) \/ TaskCellReady(b))
                      /\ tasks[b].st = "init" => ENABLED TaskInitOk(b)
                      /\ (tasks[b].st = "lock" /\ TasksIn(tasks[b].module, "running") = {}) =>
                             ENABLED TaskLock(b)
                      /\ tasks[b].st = "running" => ENABLED TaskGuestReturn(b, "zero")

\* module A's guest call is still running and the Response of a Request for
\* module B, issued later, has been delivered
C6_Witness ==
    \E a \in DOMAIN tasks, c \in Callers :
        /\ tasks[a].st = "running"
        /\ reqId[c] > a
        /\ reqId[c] \in DOMAIN tasks
        /\ tasks[reqId[c]].module # tasks[a].module
        /\ delivered[c].response = Ok(Payload(c))

InitFailStep(id) ==
    /\ id \in DOMAIN tasks
    /\ tasks[id].st = "init"
    /\ initFailed'[tasks[id].module] = initFailed[tasks[id].module] + 1

RejectStep ==
    /\ child = "running"
    /\ dpc = "read"
    /\ dpc' = "read"
    /\ h2r # <<>>
    /\ h2r' = Tail(h2r)
    /\ Head(h2r).kind = "Request"
    /\ ~IsAbsolute(Head(h2r).module)

\* C9 Rejection of unsafe identifiers: a Request whose module is not an
\* absolute path is answered with an error Response of the same id, and
\* nothing is spawned, cached, initialized or locked for it.
C9_RelativeRejected ==
    /\ [](\A m \in ModulePaths :
             ~IsAbsolute(m) =>
                 /\ cache[m] = "absent"
                 /\ initCount[m] = 0
                 /\ storeLock[m] = NoId
                 /\ \A id \in DOMAIN tasks : tasks[id].module # m)
    /\ [][RejectStep =>
             /\ outq' = Append(outq, Response(Head(h2r).id, Err(<<"not absolute">>)))
             /\ tasks' = tasks
             /\ cache' = cache
             /\ initCount' = initCount
             /\ storeLock' = storeLock]_vars

\* the error Response of a relative module reached its caller
C9_Witness ==
    \E c \in Callers :
        /\ callState[c] = "returned"
        /\ callResult[c] = Err(<<"failed to run wasm command", <<"not absolute">>>>)
        /\ delivered[c].id = reqId[c]

\* C10 Graceful shutdown drains in-flight work: Shutdown is written only once
\* the map is empty or the drain bound has elapsed; and when it is written
\* before the bound, every request whose own timeout has not fired has had
\* its handle resolved with the result of its Response.
C10_ShutdownAfterDrain ==
    (shutdownSent /\ ~drainElapsed) =>
        /\ DOMAIN requests_map = {}
        /\ \A c \in Callers :
              reqId[c] \in timers =>
                  /\ Resolved(c)
                  /\ delivered[c].id = reqId[c]
                  /\ chan[c] = Sent(delivered[c].response)

\* every caller's request was in flight when close began, all were answered
\* before any timeout, and Shutdown has been written
C10_Witness ==
    /\ shutdownSent
    /\ ~drainElapsed
    /\ closeInFlight = Callers
    /\ \A c \in Callers : reqId[c] \in timers /\ Resolved(c)

\* C11 Requests issued after close begins are rejected: once the sender of
\* the work queue is dropped no unit of work enters the queue and no run call
\* starts waiting, and the Shutdown Command is the last Command the host
\* writes: nothing is written after it.
C11_NoWorkAfterClose ==
    /\ [][~senderAlive =>
             /\ Len(queue') <= Len(queue)
             /\ \A c \in Callers : callState[c] = "idle" => callState'[c] = "idle"]_vars
    /\ [][shutdownSent => Len(h2r') <= Len(h2r)]_vars
    /\ [](\A i \in 1..Len(h2r) : h2r[i].kind = "Shutdown" => i = Len(h2r))

\* close began after one request was written, Shutdown follows that Request
\* on the connection, and a caller that has not called run yet is left
C11_Witness ==
    /\ closePc = "awaitWrite"
    /\ shutdownSent
    /\ Len(h2r) = 2
    /\ h2r[1].kind = "Request"
    /\ h2r[2].kind = "Shutdown"
    /\ \E c \in Callers : callState[c] = "idle"

C13_ChildTerminated ==
    /\ [](wpc \in {"done", "failed"} => child \in {"exited", "killed"})
    /\ (closePc = "awaitWrite") ~> (child \in {"exited", "killed"})

\* both ends: the write task finished after the child exited on its own once
\* it had read Shutdown and its stdin was closed
C13_Witness ==
    /\ closePc # "none"
    /\ shutdownSent
    /\ wpc = "done"
    /\ child = "exited"
    /\ rpc = "run"

\* C14 When close returns, with Ok or with an error, the write task has
\* finished and the read task has finished or has been aborted.
C14_CloseLeavesNoTask ==
    closePc = "done" => (WriteEnded(wpc) /\ ReadEnded(rpc))

LengthField(s) == SubSeq(s, 1, FirstNul(s) - 1)

\* the stream has one of the defects of a handshake: no NUL terminator, a
\* length field that is not made of decimal digits only, fewer name bytes
\* than the length declares, or a name that is not UTF-8
MalformedHandshake(s) ==
    IF FirstNul(s) = 0 THEN TRUE
    ELSE IF LengthField(s) = <<>> \/ \E i \in 1..Len(LengthField(s)) : LengthField(s)[i] \notin Digits
    THEN TRUE
    ELSE LET declared == Radix10(LengthField(s))
             rest == SubSeq(s, FirstNul(s) + 1, Len(s))
         IN  \/ Len(rest) < declared
             \/ \E i \in 1..declared : rest[i] = "FF"

\* C15 Malformed handshake is fatal: open returns no driver for a stream with
\* a missing NUL, a length field holding anything but decimal digits, too few
\* name bytes or a name that is not UTF-8; and while the handshake does not
\* complete the timeout of open can end it.
C15_MalformedHandshakeFatal ==
    /\ openPc = "opened" => ~MalformedHandshake(stdout_stream)
    /\ (openPc = "handshake" /\ IpcChannel(stdout_stream, stdout_end) = Pending)
           => ENABLED OpenTimeout

\* C16 Round-trip: when the guest of a module copies its input to its output
\* and returns 0 (in this call and in the calls before it), run on a payload
\* whose length fits u32 returns Ok of that payload, whatever the payloads
\* of the earlier calls were.
C16_RoundTrip ==
    (stepPc = "idle" /\ calls > 0 /\ allEcho /\ Len(stepData) < U32Range)
        => stepResult = Ok(stepData)

\* the second call of the module has returned its own payload, after a
\* first call; each guest call echoed
C16_Witness ==
    /\ stepPc = "idle"
    /\ calls = 2
    /\ allEcho
    /\ stepData = <<"a", "FF">>
    /\ stepResult = Ok(<<"a", "FF">>)

\* the payload of a frame: what follows its 8-byte length
FramePayload(f) == SubSeq(f, 9, Len(f))

\* C17 Wire codec round trip: a frame is the 8-byte little-endian count of
\* the payload bytes that follow it, the payload decodes to the message that
\* was encoded, and the reader of the whole frame gets that message (the
\* runtime's get_request gives None for Shutdown).
C17_CodecRoundTrip ==
    codecPc \in {"written", "closed", "read"} =>
        /\ Len(frame) >= 8
        /\ FromLe(SubSeq(frame, 1, 8)) = Len(frame) - 8
        /\ IF codecMsg.kind = "Response"
           THEN DecodeResponse(FramePayload(frame)) = [ok |-> TRUE, msg |-> codecMsg]
           ELSE DecodeCommand(FramePayload(frame)) = [ok |-> TRUE, msg |-> codecMsg]
        /\ (codecPc = "read" /\ wire = frame) =>
               decoded = IF codecMsg.kind = "Shutdown" THEN StreamClosed ELSE Some(codecMsg)

\* a Request with a two-byte id, a module path and data was read whole by
\* the runtime
C17_Witness ==
    /\ codecPc = "read"
    /\ wire = frame
    /\ codecMsg = RequestMsg(258, <<47, 97>>, <<97, 255>>)
    /\ decoded = Some(codecMsg)

\* C18 Decoding distinguishes clean EOF from truncation: a stream that ends
\* with no byte of a frame gives the stream-closed result; one that ends
\* after 1 to 7 bytes of the length prefix, or before the whole announced
\* payload, gives a protocol error, in read_response and in get_request.
C18_EofVersusTruncation ==
    codecPc = "read" =>
        /\ wire = <<>> => decoded = StreamClosed
        /\ (wire # <<>> /\ wire # frame) => decoded = ProtocolError

\* the number of Responses with this id in a queue of Responses
CountId(q, id) == Cardinality({k \in 1..Len(q) : q[k].id = id})

\* the request task of this id has not sent its Response yet
Unanswered(id) == id \in DOMAIN tasks /\ tasks[id].st # "done"

\* C19 Exactly one Response per Request: while the runtime process runs,
\* every Request the dispatch loop has decoded (rejected, failed at the
\* initialization of its module, or executed) is in exactly one of three
\* places: its task has not answered yet, its one Response waits in the
\* outgoing channel, or its one Response has been written on the connection;
\* no Response carries an id that was not decoded; and when the writer loop
\* has ended normally every decoded Request has exactly one Response written.
C19_ExactlyOneResponse ==
    child = "running" =>
        \A id \in Ids :
            /\ id \in decodedIds =>
                   (IF Unanswered(id) THEN 1 ELSE 0) + CountId(outq, id) + emitted[id] = 1
            /\ id \notin decodedIds => CountId(outq, id) + emitted[id] = 0
            /\ (wlpc = "done" /\ id \in decodedIds) => emitted[id] = 1

\* the writer loop has ended normally after a rejected Request (id 0) and an
\* executed one (id 1), each with its one Response written
C19_Witness ==
    /\ child = "running"
    /\ wlpc = "done"
    /\ decodedIds = {0, 1}
    /\ emitted[0] = 1
    /\ emitted[1] = 1
    /\ 0 \notin DOMAIN tasks
    /\ 1 \in DOMAIN tasks
    /\ delivered[1] = Response(0, Err(<<"not absolute">>))
    /\ delivered[2] = Response(1, Ok(Payload(2)))

\* C20 Guest failures stay inside the module boundary: a guest call that
\* returns a non-zero status or traps puts one error Response with the id of
\* its request in the outgoing channel and frees the store of its module; the
\* process, the dispatch loop, the writer loop, the module cache and every
\* other request task are as they were; and the store of a module is only
\* ever held by a request task whose guest is running, so that a later
\* Request for the module can run.
C20_GuestFailureContained ==
    /\ [][\A id \in Ids, o \in {"nonzero", "trap"} :
            TaskGuestReturn(id, o) =>
                /\ \E msg \in {tasks[id].data, <<"trap">>} :
                       outq' = Append(outq, Response(id, Err(msg)))
                /\ storeLock'[tasks[id].module] = NoId
                /\ child' = "running"
                /\ dpc' = dpc
                /\ wlpc' = wlpc
                /\ cache' = cache
                /\ \A j \in (DOMAIN tasks) \ {id} : tasks'[j] = tasks[j]]_vars
    /\ [](\A m \in ModulePaths :
            storeLock[m] # NoId =>
                /\ storeLock[m] \in DOMAIN tasks
                /\ tasks[storeLock[m]].st = "running"
                /\ tasks[storeLock[m]].module = m)

\* the guest of the first request trapped and the host received its error
\* Response; the guest of a second request for the same module is running,
\* having acquired the store after the trap
C20_Witness ==
    /\ child = "running"
    /\ delivered[1] = Response(0, Err(<<"trap">>))
    /\ 0 \in DOMAIN tasks
    /\ 1 \in DOMAIN tasks
    /\ tasks[0].module = ModA
    /\ tasks[1].module = ModA
    /\ tasks[1].st = "running"
    /\ storeLock[ModA] = 1

\* every byte of the sequence belongs to a UTF-8 text
IsUtf8(bytes) == \A i \in 1..Len(bytes) : bytes[i] # "FF"

\* C21 Status mapping: a guest call that returns status 0 makes run return
\* Ok of the content of the output pipe, and run returns Ok in no other case;
\* a non-zero status makes run return an error whose message is the content
\* of the output pipe (a byte that is not UTF-8, which the guest must not
\* write, is replaced by U+FFFD); and the host's run turns that Response into
\* an error that carries the message.
C21_StatusMapping ==
    /\ [][GuestReturn(0) => stepResult' = Ok(stdout_pipe)]_vars
    /\ [][(stepPc = "guest" /\ stepPc' = "idle" /\ stepResult'[1] = "Ok")
              => GuestReturn(0)]_vars
    /\ [][GuestReturn(1) =>
              /\ stepResult' = Err(FromUtf8Lossy(stdout_pipe))
              /\ IsUtf8(stdout_pipe) =>
                     /\ stepResult' = Err(stdout_pipe)
                     /\ RunOutcome(Sent(stepResult'))
                            = Err(<<"failed to run wasm command", stdout_pipe>>)]_vars

\* a guest wrote a message and returned a non-zero status; run returned the
\* message as an error
C21_Witness ==
    /\ stepPc = "idle"
    /\ calls = 1
    /\ guestWrote = <<"a", "a">>
    /\ stepResult = Err(<<"a", "a">>)

\* C22 Module-load errors are scoped to one identifier: the step in which an
\* initialization of a module fails leaves the cache entry, the store and
\* the request tasks of every other module as they were; and whatever has
\* failed for other modules, a request task of a module can take each of its
\* next steps: start the initialization when the cell is empty, complete it,
\* use the initialized executor, and call the guest when the store is free.
C22_LoadErrorScoped ==
    /\ [][\A id \in Ids :
            InitFailStep(id) =>
                \A m \in ModulePaths \ {tasks[id].module} :
                    /\ cache'[m] = cache[m]
                    /\ storeLock'[m] = storeLock[m]
                    /\ initCount'[m] = initCount[m]
                    /\ \A j \in DOMAIN tasks : tasks[j].module = m => tasks'[j] = tasks[j]]_vars
    /\ [](child = "running" =>
            \A id \in DOMAIN tasks :
                LET m == tasks[id].module
                IN  /\ (tasks[id].st = "cell" /\ cache[m] = "empty") => ENABLED TaskInitStart(id)
                    /\ (tasks[id].st = "cell" /\ cache[m] = "ready") => ENABLED TaskCellReady(id)
                    /\ tasks[id].st = "init" => ENABLED TaskInitOk(id)
                    /\ (tasks[id].st = "lock" /\ storeLock[m] = NoId) => ENABLED TaskLock(id)
                    /\ tasks[id].st = "running" => ENABLED TaskGuestReturn(id, "zero"))

\* the initialization of one module failed and its Request was answered with
\* the error; the Request for another module was initialized, run and
\* answered with its output
C22_Witness ==
    /\ child = "running"
    /\ DOMAIN tasks = {0, 1}
    /\ tasks[0].module = ModA
    /\ tasks[1].module = ModB
    /\ initFailed[ModA] = 1
    /\ initFailed[ModB] = 0
    /\ cache[ModA] = "empty"
    /\ cache[ModB] = "ready"
    /\ delivered[1] = Response(0, Err(<<"init failed">>))
    /\ delivered[2] = Response(1, Ok(Payload(2)))

\* every request task the dispatch loop spawned has finished
AllTasksDone == \A id \in DOMAIN tasks : tasks[id].st = "done"

\* C23 Runtime shutdown ordering: once the dispatch loop has decoded a
\* Shutdown Command it takes no further Command from the connection, decodes
\* no Request and spawns no request task, whatever follows Shutdown on the
\* stream; the dispatch task is complete only when every request task spawned
\* before the Shutdown has finished, and the process exits only after that.
C23_ShutdownOrdering ==
    /\ [][(dpc # "read" /\ child' = "running") =>
              /\ h2r' = h2r \/ (Len(h2r') = Len(h2r) + 1 /\ SubSeq(h2r', 1, Len(h2r)) = h2r)
              /\ decodedIds' = decodedIds
              /\ DOMAIN tasks' = DOMAIN tasks]_vars
    /\ []((child = "running" /\ dpc = "done") => AllTasksDone)
    /\ [][(child = "running" /\ child' # "running") => (dpc = "done" /\ AllTasksDone)]_vars

\* the dispatch task is complete after a Shutdown Command; the Request
\* decoded before it has finished, the Request written after it is still on
\* the connection
C23_Witness ==
    /\ child = "running"
    /\ dpc = "done"
    /\ shutdownSent
    /\ decodedIds = {0}
    /\ DOMAIN tasks = {0}
    /\ tasks[0].st = "done"
    /\ Len(h2r) = 1
    /\ h2r[1].kind = "Request"
    /\ h2r[1].id = 1

\* C24 stdin EOF is an unconditional shutdown trigger: once the stdin of the
\* runtime has reached EOF or failed, the process eventually exits, whether
\* or not a Shutdown Command arrives on the connection.
C24_StdinEofExits == stdinClosed ~> (child = "exited")

AssignedIds == {reqId[c] : c \in Callers} \ {NoId}

\* C26 Write-path ordering: when a Request Command is written its
\* Correlation Entry is in the map; the timeout of a request starts in the
\* step that completes the write and not before; and every Request on the
\* connection or in the runtime, and every Response on its way back, carries
\* an id whose entry had been inserted, so that a Response the read task
\* finds no entry for is one whose entry has been removed, never one whose
\* entry is still to come.
C26_WritePathOrdering ==
    /\ [][(Len(h2r') = Len(h2r) + 1 /\ h2r'[Len(h2r')].kind = "Request") =>
              LET id == h2r'[Len(h2r')].id
              IN  /\ id \in DOMAIN requests_map
                  /\ id \notin timers
                  /\ id \in timers']_vars
    /\ [](entry_guard # NoEntry => entry_guard.id \notin timers)
    /\ [](/\ \A i \in 1..Len(h2r) : h2r[i].kind = "Request" => h2r[i].id \in AssignedIds
          /\ decodedIds \subseteq AssignedIds
          /\ \A i \in 1..Len(outq) : outq[i].id \in AssignedIds
          /\ \A i \in 1..Len(r2h) : r2h[i].id \in AssignedIds
          /\ discarded \subseteq AssignedIds)

\* the Response of a request is on the connection while the entry of the
\* request is in the map and its timeout is pending
C26_Witness ==
    /\ r2h # <<>>
    /\ Head(r2h).id \in DOMAIN requests_map
    /\ Head(r2h).id \in timers
    /\ rpc = "run"

\* the completion handle of the caller has its outcome: a result was sent, or
\* the sender was dropped
Settled(c) == chan[c] \notin {NoChan, Open}

\* C27 Each Correlation Entry is removed exactly once and each completion
\* handle gets exactly one outcome: the step that removes an entry gives the
\* handle of its request its outcome, which it did not have; a handle that has
\* its outcome has no entry and keeps that outcome for ever, so a request
\* completed by its Response is unaffected by its timeout firing later and a
\* request that timed out is never completed by a later Response.
C27_EntryRemovedOnce ==
    /\ [][\A id \in (DOMAIN requests_map) \ (DOMAIN requests_map') :
              /\ chan[requests_map[id]] = Open
              /\ chan'[requests_map[id]] \notin {NoChan, Open}]_vars
    /\ [][\A c \in Callers : Settled(c) => chan'[c] = chan[c]]_vars
    /\ [](\A c \in Callers : Settled(c) => c \notin MapSenders(requests_map))

\* the timeout of a request fired and cancelled its handle; its Response
\* came later and was discarded; the entry of the other request was removed
\* by its Response, before its timeout
C27_Witness ==
    /\ chan[1] = Closed
    /\ reqId[1] = 0
    /\ 0 \in discarded
    /\ chan[2] = Sent(Ok(Payload(2)))
    /\ reqId[2] \in timers

\* C28 Request ids: the counter starts at 0 and advances by one per request,
\* wrapping at the end of the id range; the Entry guards that exist have
\* pairwise distinct ids, and every entry of the map is the entry of the
\* request whose guard has that id; so the drop of a guard removes the entry
\* of its own request or none, also after the counter has wrapped around.
C28_IdsDistinct ==
    /\ [](idCurrent = idSerial % IdModulus)
    /\ [][idSerial' # idSerial =>
              /\ idCurrent' = (idCurrent + 1) % IdModulus
              /\ idGuards'[Len(idGuards')].id = idCurrent]_vars
    /\ [](\A i, j \in 1..Len(idGuards) : idGuards[i].id = idGuards[j].id => i = j)
    /\ [](\A id \in DOMAIN idMap :
              \E i \in 1..Len(idGuards) : idGuards[i] = [id |-> id, serial |-> idMap[id]])
    /\ [][\A i \in 1..Len(idGuards) :
              (IdTimeout(i) /\ idGuards[i].id \in DOMAIN idMap)
                  => idMap[idGuards[i].id] = idGuards[i].serial]_vars

\* the counter has wrapped around: id 0 is in use for the second time, with
\* its entry and its guard, while the guard of an earlier request still exists
C28_Witness ==
    /\ idSerial = IdModulus + 1
    /\ idCurrent = 1
    /\ Len(idGuards) = 2
    /\ idGuards[2] = [id |-> 0, serial |-> IdModulus]
    /\ idGuards[1].serial < IdModulus
    /\ 0 \in DOMAIN idMap
    /\ idMap[0] = IdModulus

\* C29 Input pipe at the guest call: when the guest is invoked the input
\* pipe holds the bytes of the current request and nothing else, whatever an
\* earlier call left unread in it, and the length argument is their count;
\* during the call, what the guest has read and what the pipe still holds are
\* together those bytes.
C29_InputReplaced ==
    /\ [][(stepPc = "idle" /\ stepPc' = "guest") =>
              /\ stdin_pipe' = stepData'
              /\ stepLen' = Len(stepData')]_vars
    /\ [](stepPc = "guest" =>
              /\ guestRead \o stdin_pipe = stepData
              /\ stepLen = Len(stepData))

\* the guest is invoked for a second request while the input pipe held an
\* unread byte of the first: the pipe holds the second request's bytes only
C29_Witness ==
    /\ stepPc = "guest"
    /\ calls = 2
    /\ stdinLeft = <<"FF">>
    /\ stepData = <<"a", "a">>
    /\ stdin_pipe = <<"a", "a">>
    /\ stepLen = 2

\* C30 Output pipe at the guest call: the output pipe is empty when a guest
\* call starts and holds, during the call, the bytes the guest has written in
\* that call, so that run returns those bytes and no others, whatever the
\* earlier calls of the module did.
C30_OutputEmptyAtStart ==
    stepPc = "guest" => stdout_pipe = guestWrote

\* the entries that the step takes out of the map
RemovedIds == (DOMAIN requests_map) \ (DOMAIN requests_map')

HandshakeRefused ==
    {Err(<<"could not read path size from child">>), Err(<<"invalid length provided by child">>),
     Err(<<"child provided incorrect length">>), Err(<<"invalid utf-8">>)}

\* C32: from the handshake the runtime publishes for its endpoint name, the
\* host's parser recovers exactly that name and the host connects to that
\* endpoint: once the name is published the parse gives the name, the host
\* refuses no published handshake, and an opened connection is a connection
\* to the runtime's listener.
C32_HandshakeRoundTrip ==
    /\ stdout_stream = RuntimeHandshake(endpoint)
           => IpcChannel(stdout_stream, stdout_end) = Ok(endpoint)
    /\ openPc \in {"connect", "opened"} => openResult = Ok(endpoint)
    /\ ipcPc # "failed" => openResult \notin HandshakeRefused
    /\ openPc = "opened" => backlog + accepted = 1

\* the host has connected to an endpoint whose name is ten bytes long and
\* starts with a digit
C32_Witness ==
    /\ openPc = "opened"
    /\ Len(endpoint) = 10
    /\ endpoint[1] = "1"
    /\ openResult = Ok(endpoint)

\* C33: the runtime listens on the endpoint before any byte of its name
\* reaches its stdout, so the host never connects to an endpoint that is not
\* listening; the runtime accepts one connection on the endpoint, and no more.
C33_ListenBeforePublish ==
    /\ stdout_stream # <<>> => listener # "none"
    /\ openPc = "connect" => (listener = "listening" /\ openResult = Ok(endpoint))
    /\ openResult # Err(<<"connect">>)
    /\ accepted <= 1
    /\ accepted = 1 <=> ipcPc = "done"
    /\ ipcPc = "done" => (listener = "dropped" /\ backlog = 0 /\ openPc = "opened")

\* the runtime has accepted the host's connection
C33_Witness ==
    /\ ipcPc = "done"
    /\ accepted = 1
    /\ openPc = "opened"

\* C34: once the initialization of a module has succeeded, its executor stays
\* in the cache for as long as the runtime process lives; no initialization
\* of that module is started again, and every Request for it that gets past
\* the lookup runs on the one instance that the one successful
\* initialization produced.
C34_ExecutorRetained ==
    /\ [][\A m \in ModulePaths :
              (cache[m] = "ready" /\ child' = "running")
                  => (cache'[m] = "ready" /\ initCount'[m] = initCount[m])]_vars
    /\ [](\A m \in ModulePaths : cache[m] = "ready" => initCount[m] = initFailed[m] + 1)
    /\ [](\A id \in DOMAIN tasks :
              tasks[id].st \in {"lock", "running"} => cache[tasks[id].module] = "ready")

\* two Requests for one module: the first initialized it and is done, the
\* second found the executor in the cache and its guest call runs
C34_Witness ==
    /\ DOMAIN tasks = {0, 1}
    /\ tasks[0].module = tasks[1].module
    /\ tasks[0].st = "done"
    /\ tasks[1].st = "running"
    /\ cache[tasks[0].module] = "ready"
    /\ initCount[tasks[0].module] = 1

\* C35: a failed initialization is not cached: the step in which
\* WasmDdnsStep::new fails leaves the module's cell uninitialized with its
\* permit free, no cell ever holds a failure, a Request that waits at such a
\* cell can start a fresh initialization, and a module whose initialization
\* has failed is never initialized without a further attempt.
C35_FailedInitNotCached ==
    /\ [][\A id \in DOMAIN tasks :
              TaskInitErr(id) => cache'[tasks[id].module] = "empty"]_vars
    /\ [](\A m \in ModulePaths : cache[m] \in {"absent", "empty", "initing", "ready"})
    /\ [](\A id \in DOMAIN tasks :
              (child = "running" /\ tasks[id].st = "cell" /\ cache[tasks[id].module] = "empty")
                  => ENABLED TaskInitStart(id))
    /\ [](\A m \in ModulePaths :
              (cache[m] = "ready" /\ initFailed[m] > 0) => initCount[m] > initFailed[m])

\* the first initialization of a module failed, the second Request for it
\* started a fresh one, and that one succeeded
C35_Witness ==
    /\ DOMAIN tasks = {0, 1}
    /\ tasks[0].module = tasks[1].module
    /\ tasks[0].st = "done"
    /\ initFailed[tasks[0].module] = 1
    /\ initCount[tasks[0].module] = 2
    /\ cache[tasks[0].module] = "ready"

\* C36: when the write of a Request Command fails, the entry inserted for
\* that request is removed in the same step and the handle of its caller is
\* cancelled at once; the write task ends with the error, and every entry it
\* leaves in the map has its timeout guard.
C36_FailedWriteRemovesEntry ==
    /\ [][WriteCommandErr =>
              /\ entry_guard.id \in DOMAIN requests_map
              /\ chan[requests_map[entry_guard.id]] = Open
              /\ entry_guard.id \notin DOMAIN requests_map'
              /\ chan'[requests_map[entry_guard.id]] = Closed
              /\ entry_guard.id \notin timers'
              /\ wpc' = "failed"]_vars
    /\ [](wpc = "failed" => (entry_guard = NoEntry /\ DOMAIN requests_map \subseteq timers))

\* the write of the second request failed: its entry is gone and its handle
\* is cancelled, while the entry of the first request is still in the map
\* with its timeout guard
C36_Witness ==
    /\ wpc = "failed"
    /\ DOMAIN requests_map = {0}
    /\ timers = {0}
    /\ \E c \in Callers : reqId[c] = 1 /\ chan[c] = Closed /\ callState[c] = "waiting"

\* C37: on an orderly shutdown the runtime shuts its send half down only
\* after the writer loop has written every Response that was placed on the
\* outgoing channel, and the writer loop ends only when the dispatch task
\* and every request task have dropped their senders: when the writer loop
\* has ended the channel is empty, every task is done, every decoded Request
\* has its Response on the connection, and nothing is placed on the channel
\* any more.
C37_SendHalfClosedAfterLastResponse ==
    /\ [][WriterDone => (dpc = "done" /\ AllTasksDone /\ outq = <<>>)]_vars
    /\ [](wlpc = "done" =>
              /\ dpc = "done"
              /\ AllTasksDone
              /\ outq = <<>>
              /\ \A id \in decodedIds : emitted[id] = 1)
    /\ [][wlpc = "done" => (outq' = <<>> /\ (wlpc' = "done" => r2h' = r2h \/ Len(r2h') < Len(r2h)))]_vars

\* the writer loop has ended after it wrote the Responses of two Requests
C37_Witness ==
    /\ child = "running"
    /\ wlpc = "done"
    /\ decodedIds = {0, 1}
    /\ emitted[0] = 1
    /\ emitted[1] = 1

\* C38: idle reclamation runs only while it holds the module's execution
\* lock, so it never overlaps a guest call: gc and a call of run never hold
\* the lock together, the reclaiming step is taken with the lock held by gc
\* and no guest running, and it leaves the bytes of both pipes, the state of
\* the call and the cached instance as they are.
C38_GcUnderLock ==
    /\ [](~(gcPc = "locked" /\ stepPc = "guest"))
    /\ [][GcRun =>
              /\ gcPc = "locked"
              /\ stepPc = "idle"
              /\ stdin_pipe' = stdin_pipe
              /\ stdout_pipe' = stdout_pipe
              /\ stepResult' = stepResult
              /\ cache' = cache]_vars
    /\ [][gcPc = "locked" => (stdin_pipe' = stdin_pipe /\ stdout_pipe' = stdout_pipe)]_vars

\* gc holds the lock between two calls of run while the input pipe holds a
\* byte the guest did not read and the output pipe holds the bytes of a call
\* that trapped
C38_Witness ==
    /\ gcPc = "locked"
    /\ calls = 1
    /\ stdin_pipe # <<>>
    /\ stdout_pipe # <<>>

\* C39: after the driver is dropped without close (no Shutdown Command; the
\* connection halves and the child's stdin are closed) the dispatch loop
\* ends on the end of the Command stream as it does on a Shutdown Command:
\* it stops once it has read what was written, the dispatch task ends only
\* when every request task is done, and the process exits, given that every
\* module initialization and guest call of a request task returns.
C39_DropLeadsToExit ==
    /\ [](closePc = "dropped" => (stdinClosed /\ HostSendClosed))
    /\ [][(closePc = "dropped" /\ ~shutdownSent /\ dpc = "read" /\ dpc' = "join")
              => (h2r = <<>> /\ tasks' = tasks)]_vars
    /\ []((closePc = "dropped" /\ dpc = "done") => AllTasksDone)
    /\ (closePc = "dropped" /\ ~shutdownSent) ~> (child # "running")

\* the driver has been dropped while a guest call was running; the dispatch
\* loop has ended on the end of the stream and waits for the request task
C39_Witness ==
    /\ closePc = "dropped"
    /\ ~shutdownSent
    /\ child = "running"
    /\ dpc = "join"
    /\ \E id \in DOMAIN tasks : tasks[id].st = "running"

\* the callers whose run call, issued through with_wasm_driver, is in progress
RunningOn(d) == {c \in Callers : wdPc[c] = "run" /\ wdDriver[c] = d}

\* C40: the cleanup routine takes and closes the shared driver only while it
\* holds the write lock, and a with_wasm_driver caller holds the read lock
\* for the whole of its run call: the write guard and a read guard are never
\* held together, a run call in progress uses the driver that is in the cell,
\* and no driver is taken, closed or already closed while a run call on it is
\* in progress.
C40_NoCloseDuringRun ==
    /\ [](~(rwWriter /\ rwReaders # {}))
    /\ [](closing # 0 => (rwWriter /\ cell = 0))
    /\ [](\A c \in Callers : wdPc[c] \in {"read", "run"} <=> c \in rwReaders)
    /\ [](\A c \in Callers : wdPc[c] = "run" => (wdDriver[c] = cell /\ cell # 0 /\ closing = 0))
    /\ [][cell' # cell => RunningOn(cell) = {}]_vars
    /\ [][CleanupClose => (rwWriter /\ RunningOn(closing) = {})]_vars

\* the first driver has been taken and closed; two run calls are in progress
\* on the second driver while the cleanup routine waits for the write guard
C40_Witness ==
    /\ cell = 2
    /\ clPc = "wait"
    /\ \A c \in Callers : wdPc[c] = "run" /\ wdDriver[c] = 2

====
